---- MODULE Spec2Model ----
(***************************************************************************)
(* Model of the court-data-fetcher scraper core:                           *)
(*   internal/scraper/scraper.go  SearchCaseConcurrent, SearchCase,        *)
(*                                getOrCreatePage                          *)
(*   internal/scraper/captcha.go  handleCaptcha and its solver steps       *)
(*                                (src/unnamed/part_002, lines 1-375)      *)
(*                                                                         *)
(* Spec       the batch: SearchCaseConcurrent fanning SearchCase out over  *)
(*            worker goroutines that share one browser, one session map    *)
(*            and one mutex; the protocol of a query is one step here.     *)
(* SpecQuery  one SearchCase call, statement by statement, with its        *)
(*            deadline; handleCaptcha is one step of it.                   *)
(* SpecChain  one invocation of handleCaptcha, statement by statement,     *)
(*            with the wall clock in seconds.                              *)
(***************************************************************************)
EXTENDS Integers, Sequences, FiniteSets, TLC

\* ---------------------------------------------------------------- bounds
MaxQueries == 2
MaxK == 2
MaxTime == 1
MaxCloses == 2
MaxClock == 4
\* The longest idle time of the cache that is looked at, in ttls.
MaxWaits == 1
MaxRows == 2

\* ------------------------------------------------------------ data types
\* CaseQuery (scraper.go:372-376); the empty string is a missing field.
CaseQuery(t, n, y) == [CaseType |-> t, CaseNumber |-> n, FilingYear |-> y]

ZeroQuery == CaseQuery("", "", "")

\* The queries a caller may pass: a complete one and one with a missing field
\* (SearchCase and SearchCaseConcurrent never inspect the fields).
QuerySet == { CaseQuery("CS", "1234", "2023"), CaseQuery("", "1234", "2023") }

Valid(q) == q.CaseType /= "" /\ q.CaseNumber /= "" /\ q.FilingYear /= ""

\* Sequences over S of length 0..n.
SeqUpTo(S, n) == UNION { [1..k -> S] : k \in 0..n }

\* The error values SearchCase returns (fmt.Errorf prefixes); "nil" is no error.
ErrCreatePage == "failed to create page"
ErrNavigate == "failed to navigate"
ErrCaseType == "case type select not found"
ErrCaseNumber == "case number input not found"
ErrYear == "year select not found"
ErrCaptcha == "captcha handling failed"
ErrSubmit == "submit button not found"
ErrSearch == "search error"
ErrParse == "failed to parse results"

\* What page.HTML() yields: the snapshot, or "" when the call fails
\* (its error is discarded: html, _ := page.HTML()).
Snapshots == {"", "html"}

\* CaseResult (scraper.go:379-384); CaseInfo is TRUE for a non-nil record.
CaseResult(q, info, html, err) ==
    [Query |-> q, CaseInfo |-> info, RawHTML |-> html, Error |-> err]

\* The zero value make([]CaseResult, n) fills every slot with.
ZeroResult == CaseResult(ZeroQuery, FALSE, "", "nil")

\* A query's (caseInfo, rawHTML, err) before SearchCase has returned.
Pending == [CaseInfo |-> FALSE, RawHTML |-> "", Error |-> "pending"]

\* sessionID := fmt.Sprintf("session_%d", time.Now().Unix())
SessionID(t) == <<"session", t>>

VARIABLES
    queries,    \* the input slice of SearchCaseConcurrent
    K,          \* cfg.MaxConcurrentScrapes
    next,       \* index of the range loop in SearchCaseConcurrent
    wg,         \* sync.WaitGroup counter
    sem,        \* number of tokens in the semaphore channel
    results,    \* the pre-sized results slice
    returned,   \* what SearchCaseConcurrent returned, or NotReturned
    pc,         \* position of each worker goroutine
    page,       \* the page SearchCase got from getOrCreatePage (0: none)
    navs,       \* Navigate calls each query has made
    expired,    \* searchCtx of the query is done (deadline passed)
    outcome,    \* (caseInfo, html, err) of the query's SearchCase call
    tries,      \* handleCaptcha calls each query has made
    shown,      \* the page the portal showed each query after submit
    mu,         \* holder of Scraper.mu (0: unlocked)
    sessions,   \* Scraper.sessions: sessionID -> page
    numPages,   \* pages the browser has created
    now,        \* time.Now().Unix()
    crashed,    \* an unrecovered panic has terminated the process
    chain,      \* the running handleCaptcha invocation (SpecChain)
    files,      \* ./data/captchas: file name -> content
    closed,     \* pages whose tab is closed
    browserUp,  \* the browser process is running
    closer,     \* the caller of Scraper.Close: position, pages left, calls made
    remote,     \* the remote CAPTCHA handoff of each query (SpecRemote)
    lru,        \* the LRUCache: items, stats, lock, clock
    callers,    \* the goroutines calling the cache: position, operation, key
    api,        \* the GET /api/case request being handled (SpecApi)
    parser,     \* parseCaseDetailsFromTable: the rows, the loop index, the record
    dates,      \* the running parseDate call (SpecDate)
    orders,     \* the running ParseOrders call (SpecOrders)
    extract,    \* the running ParseCaseDetails call (SpecExtract)
    parties     \* the running parsePartiesFromTable call (SpecParties)

batchVars == <<queries, K, next, wg, sem, results, returned, pc, page, navs,
               expired, outcome, tries, shown, mu, sessions, numPages>>

closeVars == <<closed, browserUp, closer>>

\* The state outside the scraper's search path.
remoteVars == <<remote>>

cacheVars == <<lru, callers>>

apiVars == <<api>>

parserVars == <<parser, dates, orders, extract, parties>>

extVars == <<closeVars, remoteVars, cacheVars, apiVars, parserVars>>

vars == <<batchVars, now, crashed, chain, files, extVars>>

N == Len(queries)
Workers == 1..N

NotReturned == [results |-> <<>>, err |-> "pending"]

\* Nobody has called Close: every tab is open and the browser runs.
CloserIdle == [pc |-> "idle", todo |-> {}, calls |-> 0, ret |-> "none"]

\* The goroutines that call the cache and the keys they use.
Callers == 1..2

CacheKeys == {"a", "b", "c"}

\* cfg.CacheSize and the ttl of the items, in clock units.
MaxSize == 2

CacheTTL == 30

ZeroStats == [Hits |-> 0, Misses |-> 0, Size |-> 0]

\* NewCache(maxSize, ttl): no item, zero stats, nobody holds the RWMutex.
CacheInit ==
    /\ lru = [items |-> <<>>, stats |-> ZeroStats, writer |-> 0, readers |-> {},
              clock |-> 0, lastUse |-> <<>>]
    /\ callers = [c \in Callers |-> [pc |-> "idle", op |-> "none", key |-> "none"]]

\* No request is being handled.
ApiIdle ==
    [pc |-> "idle", req |-> [type |-> "", number |-> "", year |-> ""], status |-> 0,
     usedCache |-> FALSE, usedScraper |-> FALSE, err |-> "nil"]

\* A query that has not reached the remote handoff of handleCaptcha.
RemoteIdle == [pc |-> "idle", captchaID |-> <<"captcha", -1>>, deadline |-> -1, text |-> <<>>]

CloseInit ==
    /\ closed = {}
    /\ browserUp = TRUE
    /\ closer = CloserIdle

\* The scraper's collaborators when the server has been constructed.
ServiceInit ==
    /\ CloseInit
    /\ remote = [i \in DOMAIN queries |-> RemoteIdle]
    /\ CacheInit
    /\ api = ApiIdle

\* No details table is being parsed.
NoTable == [rows |-> <<>>, i |-> 1, info |-> <<>>]

\* No ParseCaseDetails call is running.
NoExtract ==
    [pc |-> "idle", page |-> <<>>, info |-> <<>>, tiers |-> <<>>, ret |-> "pending",
     out |-> <<>>]

\* No parsePartiesFromTable call is running.
NoParties == [pc |-> "idle", rows |-> <<>>, i |-> 0, out |-> <<>>]

\* No ParseOrders call is running.
NoOrders == [pc |-> "idle", url |-> <<>>, rows |-> <<>>, i |-> 0, out |-> <<>>]

\* No parseDate call is running.
NoParse == [pc |-> "idle", input |-> <<>>, s |-> <<>>, cleaned |-> <<>>, pass |-> 0, k |-> 0,
            date |-> [y |-> 0, m |-> 0, d |-> 0], err |-> "pending"]

ExtInit ==
    /\ ServiceInit
    /\ parser = NoTable
    /\ dates = NoParse
    /\ orders = NoOrders
    /\ extract = NoExtract
    /\ parties = NoParties

\* ======================================================================
\* SearchCaseConcurrent and SearchCase (scraper.go)
\* ======================================================================

\* Page text is a sequence of characters.
Upper == <<"A", "B", "C", "D", "E", "F", "G", "H", "I", "J", "K", "L", "M", "N", "O", "P", "Q", "R", "S", "T", "U", "V", "W", "X", "Y", "Z">>

Lower == <<"a", "b", "c", "d", "e", "f", "g", "h", "i", "j", "k", "l", "m", "n", "o", "p", "q", "r", "s", "t", "u", "v", "w", "x", "y", "z">>

\* strings.ToLower
ToLower(s) ==
    [k \in DOMAIN s |->
        IF \E u \in DOMAIN Upper : Upper[u] = s[k]
        THEN Lower[CHOOSE u \in DOMAIN Upper : Upper[u] = s[k]]
        ELSE s[k]]

\* strings.Contains
Contains(s, sub) ==
    \E k \in 0..(Len(s) - Len(sub)) : SubSeq(s, k + 1, k + Len(sub)) = sub

\* Texts the portal shows after a submit.
Txt ==
    [NoRecord |-> <<"N", "o", " ", "R", "e", "c", "o", "r", "d", " ", "F", "o", "u", "n", "d">>,
     InvalidCase |-> <<"I", "N", "V", "A", "L", "I", "D", " ", "C", "A", "S", "E", " ", "N", "U", "M", "B", "E", "R">>,
     WrongCaptcha |-> <<"W", "r", "o", "n", "g", " ", "C", "a", "p", "t", "c", "h", "a", " ", "e", "n", "t", "e", "r", "e", "d">>,
     Listing |-> <<"C", "a", "s", "e", " ", "C", "S", "/", "1", "2", "3", "4", "/", "2", "0", "2", "3", " ", "l", "i", "s", "t", "e", "d">>]

\* return "No records found for the given case details"
MsgNoRecords == <<"N", "o", " ", "r", "e", "c", "o", "r", "d", "s", " ", "f", "o", "u", "n", "d", " ", "f", "o", "r", " ", "t", "h", "e", " ", "g", "i", "v", "e", "n", " ", "c", "a", "s", "e", " ", "d", "e", "t", "a", "i", "l", "s">>

\* No submit has happened: the query has no result page.
NoPage == [elems |-> <<>>, body |-> <<>>]

\* The pages the portal may show after a submit: elems are the texts of the
\* elements matching div.error, div.alert-danger, span.error-message and
\* div#errormsg, in that order; body is the text of the body element.
ResultPages ==
    [elems : {<<>>, << <<>> >>, <<Txt.WrongCaptcha>>, << <<>>, Txt.NoRecord >>},
     body : {Txt.Listing, Txt.NoRecord, Txt.InvalidCase, Txt.WrongCaptcha}]

\* The text of the first error element that has one, "" if there is none.
RECURSIVE FirstText(_)
FirstText(elems) ==
    IF elems = <<>> THEN <<>>
    ELSE IF Head(elems) /= <<>> THEN Head(elems)
    ELSE FirstText(Tail(elems))

\* checkForErrors(page): the first non-empty error element text, else the
\* fixed message when the lowercased body contains "no record", "not found"
\* or "invalid case", else "".
checkForErrors(p) ==
    IF FirstText(p.elems) /= <<>> THEN FirstText(p.elems)
    ELSE IF \/ Contains(ToLower(p.body), <<"n", "o", " ", "r", "e", "c", "o", "r", "d">>)
            \/ Contains(ToLower(p.body), <<"n", "o", "t", " ", "f", "o", "u", "n", "d">>)
            \/ Contains(ToLower(p.body), <<"i", "n", "v", "a", "l", "i", "d", " ", "c", "a", "s", "e">>)
         THEN MsgNoRecords
         ELSE <<>>

\* What one SearchCase call returns: (caseInfo != nil, rawHTML, err).
Out(info, html, err) == [CaseInfo |-> info, RawHTML |-> html, Error |-> err]

\* The return statements of SearchCase after the page was acquired
\* (scraper.go:99, 132, 144, 156, 185, 194, 211, 220, 228).
Outcomes ==
    {Out(FALSE, "", ErrNavigate), Out(FALSE, "", ErrCaptcha), Out(FALSE, "", ErrSearch)}
    \cup {Out(FALSE, h, e) : h \in Snapshots,
                            e \in {ErrCaseType, ErrCaseNumber, ErrYear, ErrSubmit, ErrParse}}
    \cup {Out(TRUE, h, "nil") : h \in Snapshots}

\* The outcomes the batch model lets a query have: one of each shape of return
\* (error without snapshot, error with snapshot, record with snapshot).  The
\* worker only copies the three values into its slot.
BatchOutcomes == { o \in Outcomes : o.Error \in {ErrNavigate, ErrParse, "nil"} }

\* The state of the scraper and of a call of SearchCaseConcurrent(ctx, qs)
\* with cfg.MaxConcurrentScrapes = k, its queries at position `at` of
\* SearchCase on page pg (0: no page yet).
BatchStartAt(qs, k, at, pg) ==
    /\ queries = qs
    /\ K = k
    /\ next = 1
    /\ wg = 0
    /\ sem = 0
    /\ results = [i \in 1..Len(qs) |-> ZeroResult]
    /\ returned = NotReturned
    /\ pc = [i \in 1..Len(qs) |-> at]
    /\ page = [i \in 1..Len(qs) |-> pg]
    /\ navs = [i \in 1..Len(qs) |-> 0]
    /\ expired = [i \in 1..Len(qs) |-> FALSE]
    /\ outcome = [i \in 1..Len(qs) |-> Pending]
    /\ tries = [i \in 1..Len(qs) |-> 0]
    /\ shown = [i \in 1..Len(qs) |-> NoPage]
    /\ mu = 0
    /\ sessions = IF pg = 0 THEN <<>> ELSE [s \in {SessionID(0)} |-> pg]
    /\ numPages = pg
    /\ now = 0
    /\ crashed = FALSE

\* The same before SearchCase has been called: no page exists.
BatchStart(qs, k) == BatchStartAt(qs, k, "idle", 0)

Init ==
    /\ \E qs \in SeqUpTo(QuerySet, MaxQueries), k \in 0..MaxK : BatchStart(qs, k)
    /\ chain = <<>>
    /\ files = <<>>
    /\ ExtInit

\* for i, query := range queries { wg.Add(1); go func(index, q) {...}(i, query) }
Spawn ==
    /\ ~crashed /\ returned = NotReturned
    /\ next <= N
    /\ wg' = wg + 1
    /\ pc' = [pc EXCEPT ![next] = "spawned"]
    /\ next' = next + 1
    /\ UNCHANGED <<tries, shown, queries, K, sem, results, returned, page, navs, expired,
                   outcome, mu, sessions, numPages, now, crashed, chain, files, extVars>>

\* A caller that does not wait for the workers.
NoWait == TRUE

\* wg.Wait() returns when the counter is zero.
WaitDone == wg = 0

\* wg.Wait(); return results, nil
WaitAndReturn ==
    /\ ~crashed /\ returned = NotReturned
    /\ next > N
    /\ WaitDone
    /\ returned' = [results |-> results, err |-> "nil"]
    /\ UNCHANGED <<tries, shown, queries, K, next, wg, sem, results, pc, page, navs, expired,
                   outcome, mu, sessions, numPages, now, crashed, chain, files, extVars>>

\* A send that goes through although the channel already holds k tokens.
SlotFreeOffByOne(n, k) == n <= k

\* A send on a channel of capacity k holding n tokens goes through when n < k.
SlotFree(n, k) == n < k

\* semaphore <- struct{}{} on a channel of capacity K: it blocks while K
\* tokens are in the channel (for K = 0 nobody ever receives: it blocks for ever).
Acquire(i) ==
    /\ ~crashed
    /\ pc[i] = "spawned"
    /\ SlotFree(sem, K)
    /\ sem' = sem + 1
    /\ pc' = [pc EXCEPT ![i] = "lock"]
    /\ UNCHANGED <<tries, shown, queries, K, next, wg, results, returned, page, navs, expired,
                   outcome, mu, sessions, numPages, now, crashed, chain, files, extVars>>

\* A Lock that does not wait for the holder.
MuAny == TRUE

\* sync.Mutex: Lock returns only when nobody holds the mutex.
MuFree == mu = 0

\* s.mu.Lock()
Lock(i) ==
    /\ ~crashed
    /\ pc[i] = "lock"
    /\ MuFree
    /\ mu' = i
    /\ pc' = [pc EXCEPT ![i] = "getpage"]
    /\ UNCHANGED <<tries, shown, queries, K, next, wg, sem, results, returned, page, navs,
                   expired, outcome, sessions, numPages, now, crashed, chain, files, extVars>>

\* A failing query that cancels the contexts of the whole batch.
CancelBatchOnError(i, err) ==
    IF err = "nil" THEN [expired EXCEPT ![i] = TRUE] ELSE [j \in DOMAIN expired |-> TRUE]

\* What returning from SearchCase does to the contexts: defer cancel() ends the
\* query's own searchCtx and no other.
CancelOwn(i, err) == [expired EXCEPT ![i] = TRUE]

\* A return statement of SearchCase: the caller gets (caseInfo, rawHTML, err).
Return(i, info, html, err) ==
    /\ pc' = [pc EXCEPT ![i] = "ret"]
    /\ outcome' = [outcome EXCEPT ![i] = Out(info, html, err)]
    /\ expired' = CancelOwn(i, err)

\* A step of SearchCase that goes on to the statement at `to`.
Goto(i, to) ==
    /\ pc' = [pc EXCEPT ![i] = to]
    /\ UNCHANGED <<outcome, expired>>

\* A Must* call panics; the worker goroutines of SearchCaseConcurrent recover
\* nowhere, so the process dies.
Panic ==
    /\ crashed' = TRUE
    /\ UNCHANGED <<batchVars, now, chain, files, extVars>>

\* What a step of SearchCase after page acquisition leaves alone.
callFrame == <<queries, K, next, wg, sem, results, returned, page, mu,
               sessions, numPages, now, crashed, chain, files, extVars>>

\* What a form-fill step leaves alone besides.
stepFrame == <<tries, shown, callFrame>>

\* page, err := s.getOrCreatePage(ctx); s.mu.Unlock(); if err != nil { return ... }
\* getOrCreatePage: the page stored under this second's sessionID if there is
\* one, else a new page of the running browser, stored under that sessionID.
GetOrCreatePage(i) ==
    /\ ~crashed
    /\ pc[i] = "getpage"
    /\ mu = i
    /\ LET sid == SessionID(now) IN
         IF sid \in DOMAIN sessions
         THEN /\ page' = [page EXCEPT ![i] = sessions[sid]]
              /\ mu' = 0
              /\ Goto(i, "nav")
              /\ UNCHANGED <<sessions, numPages, crashed>>
         ELSE \/ \* s.Browser.Page fails
                 /\ mu' = 0
                 /\ Return(i, FALSE, "", ErrCreatePage)
                 /\ UNCHANGED <<page, sessions, numPages, crashed>>
              \/ \* MustSetViewport or MustSetExtraHeaders panics
                 /\ crashed' = TRUE
                 /\ UNCHANGED <<page, sessions, numPages, mu, pc, outcome, expired>>
              \/ /\ browserUp
                 /\ numPages' = numPages + 1
                 /\ sessions' = [s \in DOMAIN sessions \cup {sid} |->
                                   IF s = sid THEN numPages + 1 ELSE sessions[s]]
                 /\ page' = [page EXCEPT ![i] = numPages + 1]
                 /\ mu' = 0
                 /\ Goto(i, "nav")
                 /\ UNCHANGED crashed
    /\ UNCHANGED <<tries, shown, queries, K, next, wg, sem, results, returned, navs, now, chain, files, extVars>>

\* The positions of SearchCase between page acquisition and its return.
InFlight ==
    {"nav", "load", "casetype", "casenumber", "year", "captcha", "submit",
     "check", "parse", "details"}

\* searchCtx, cancel := context.WithTimeout(ctx, s.cfg.ScraperTimeout): the
\* deadline of a query passes while the query is in flight.
Expire(i) ==
    /\ ~crashed
    /\ pc[i] \in InFlight
    /\ ~expired[i]
    /\ expired' = [expired EXCEPT ![i] = TRUE]
    /\ UNCHANGED <<tries, shown, queries, K, next, wg, sem, results, returned, pc, page, navs,
                   outcome, mu, sessions, numPages, now, crashed, chain, files, extVars>>

\* Results appended in completion order: the first slot still unwritten.
StoreInCompletionOrder(i, r) ==
    LET free == { k \in DOMAIN results : results[k] = ZeroResult }
        k == CHOOSE k \in free : \A j \in free : k <= j
    IN [results EXCEPT ![k] = r]

\* results[index] = CaseResult{...}: the slot the worker's result goes to.
StoreResult(i, r) == [results EXCEPT ![i] = r]

\* A worker that stores its result and leaves without <-semaphore.
FinishKeepsSlot(i, o) ==
    /\ results' = StoreResult(i, CaseResult(queries[i], o.CaseInfo, o.RawHTML, o.Error))
    /\ sem' = sem
    /\ wg' = wg - 1
    /\ pc' = [pc EXCEPT ![i] = "done"]

\* The worker after SearchCase has returned o: results[index] = CaseResult{
\* Query: q, CaseInfo: caseInfo, RawHTML: rawHTML, Error: err}, then the
\* deferred calls <-semaphore and wg.Done().
Finish(i, o) ==
    /\ results' = StoreResult(i, CaseResult(queries[i], o.CaseInfo, o.RawHTML, o.Error))
    /\ sem' = sem - 1
    /\ wg' = wg - 1
    /\ pc' = [pc EXCEPT ![i] = "done"]

\* A worker whose SearchCase call returned without a page (Browser.Page failed).
FinishWorker(i) ==
    /\ ~crashed
    /\ pc[i] = "ret"
    /\ Finish(i, outcome[i])
    /\ UNCHANGED <<tries, shown, queries, K, next, returned, page, navs, expired, outcome, mu,
                   sessions, numPages, now, crashed, chain, files, extVars>>

\* caseInfo, rawHTML, err := s.SearchCase(...) from page acquisition on, taken
\* as one step of the worker together with what the worker does with the
\* result: SearchCase navigates, runs the protocol and returns an outcome,
\* or panics in a Must* call.  (SpecQuery takes the same code statement by
\* statement.)
RunQuery(i) ==
    /\ ~crashed
    /\ pc[i] = "nav"
    /\ \/ /\ \E o \in BatchOutcomes :
               /\ outcome' = [outcome EXCEPT ![i] = o]
               /\ expired' = CancelOwn(i, o.Error)
               /\ Finish(i, o)
          /\ navs' = [navs EXCEPT ![i] = @ + 1]
          /\ UNCHANGED <<tries, shown, queries, K, next, returned, page, mu, sessions, numPages,
                         now, crashed, chain, files, extVars>>
       \/ Panic

\* A second of wall-clock time passes.
Tick ==
    /\ ~crashed
    /\ now < MaxTime
    /\ now' = now + 1
    /\ UNCHANGED <<batchVars, crashed, chain, files, extVars>>

Next ==
    \/ Spawn
    \/ WaitAndReturn
    \/ Tick
    \/ \E i \in Workers : Acquire(i)
    \/ \E i \in Workers : Lock(i)
    \/ \E i \in Workers : GetOrCreatePage(i)
    \/ \E i \in Workers : Expire(i)
    \/ \E i \in Workers : RunQuery(i)
    \/ \E i \in Workers : FinishWorker(i)

Spec == Init /\ [][Next]_vars

\* A batch of up to MaxQueries queries, all for the same case.
InitFair ==
    /\ \E qs \in SeqUpTo({CaseQuery("CS", "1234", "2023")}, MaxQueries), k \in 0..MaxK :
         BatchStart(qs, k)
    /\ chain = <<>>
    /\ files = <<>>
    /\ ExtInit

\* The goroutines of the batch keep running: a step that can be taken is
\* taken, which includes that every SearchCase call comes to its end.
SpecFair == InitFair /\ [][Next]_vars /\ WF_vars(Next)

\* ----------------------------------------------------------------------
\* One SearchCase call, statement by statement (scraper.go:75-229)
\* ----------------------------------------------------------------------

\* A caller has called SearchCase(ctx, q.CaseType, q.CaseNumber, q.FilingYear);
\* the session map may hold the page of an earlier call of this second.
InitQuery ==
    /\ \E q \in QuerySet : BatchStart(<<q>>, 1)
    /\ chain = <<>>
    /\ files = <<>>
    /\ ExtInit

\* The call begins at s.mu.Lock().
Call(i) ==
    /\ ~crashed
    /\ pc[i] = "idle"
    /\ pc' = [pc EXCEPT ![i] = "lock"]
    /\ UNCHANGED <<tries, shown, queries, K, next, wg, sem, results, returned, page, navs,
                   expired, outcome, mu, sessions, numPages, now, crashed, chain, files, extVars>>

\* err = page.Context(navCtx).Navigate(courtURL): navCtx is a child of
\* searchCtx, so a passed deadline fails the call.
Navigate(i) ==
    /\ ~crashed
    /\ pc[i] = "nav"
    /\ navs' = [navs EXCEPT ![i] = @ + 1]
    /\ \/ ~expired[i] /\ Goto(i, "load")
       \/ Return(i, FALSE, "", ErrNavigate)
    /\ UNCHANGED stepFrame

\* err = page.Context(loadCtx).WaitLoad(): an error (timeout) is logged and
\* ignored; then info := page.MustInfo() and the two 3 s sleeps.
WaitLoad(i) ==
    /\ ~crashed
    /\ pc[i] = "load"
    /\ \/ Goto(i, "casetype") /\ UNCHANGED <<stepFrame, navs>>
       \/ Panic

\* A form field: el, err := page.Element(sel); on error return the snapshot
\* and the field's error; else el.MustSelect / el.MustInput and a 1 s sleep.
FillField(i, at, err, to) ==
    /\ ~crashed
    /\ pc[i] = at
    /\ \/ \E html \in Snapshots : Return(i, FALSE, html, err) /\ UNCHANGED <<stepFrame, navs>>
       \/ Goto(i, to) /\ UNCHANGED <<stepFrame, navs>>
       \/ Panic

\* A case type step that goes on to the year, leaving the case number out.
FillCaseTypeThenYear(i) == FillField(i, "casetype", ErrCaseType, "year")

FillCaseType(i) == FillField(i, "casetype", ErrCaseType, "casenumber")

FillCaseNumber(i) == FillField(i, "casenumber", ErrCaseNumber, "year")

\* A missing year select reported under the case-number field's name.
FillYearMisnamed(i) == FillField(i, "year", ErrCaseNumber, "captcha")

FillYear(i) == FillField(i, "year", ErrYear, "captcha")

\* The displayed-code block (#captcha-code, #captchaInput, MustInput) and then
\* if err := s.handleCaptcha(page); err != nil { return nil, "", ... }.
\* handleCaptcha returns nil or an error, or panics in MustInput (SpecChain
\* takes it statement by statement).
ResolveCaptcha(i) ==
    /\ ~crashed
    /\ pc[i] = "captcha"
    /\ \/ /\ tries' = [tries EXCEPT ![i] = @ + 1]
          /\ \/ Return(i, FALSE, "", ErrCaptcha)
             \/ Goto(i, "submit")
          /\ UNCHANGED <<callFrame, shown, navs>>
       \/ Panic

\* submitBtn, err := page.Element("#search"); submitBtn.MustClick(); 5 s sleep;
\* page.MustWaitNavigation() (the wait function it returns is never called);
\* 2 s sleep.
Submit(i) ==
    /\ ~crashed
    /\ pc[i] = "submit"
    /\ \/ \E html \in Snapshots : Return(i, FALSE, html, ErrSubmit) /\ UNCHANGED <<stepFrame, navs>>
       \/ /\ \E p \in ResultPages : shown' = [shown EXCEPT ![i] = p]
          /\ Goto(i, "check")
          /\ UNCHANGED <<callFrame, tries, navs>>
       \/ Panic

\* errorMsg := s.checkForErrors(page); if errorMsg != "" { return nil, "", ... }
CheckForErrors(i) ==
    /\ ~crashed
    /\ pc[i] = "check"
    /\ IF checkForErrors(shown[i]) /= <<>>
       THEN Return(i, FALSE, "", ErrSearch)
       ELSE Goto(i, "parse")
    /\ UNCHANGED <<stepFrame, navs>>

\* html, _ := page.HTML(); caseInfo, err := s.parseResults(page):
\* an error returns (nil, html, err); MustElement / MustClick may panic.
ParseResults(i) ==
    /\ ~crashed
    /\ pc[i] = "parse"
    /\ \/ \E html \in Snapshots :
            /\ \/ Return(i, FALSE, html, ErrParse)
               \/ /\ pc' = [pc EXCEPT ![i] = "details"]
                  /\ outcome' = [outcome EXCEPT ![i].RawHTML = html]
                  /\ UNCHANGED expired
            /\ UNCHANGED <<stepFrame, navs>>
       \/ Panic

\* if err := s.fetchAdditionalDetails(page, caseInfo); err != nil { warn };
\* return caseInfo, html, nil.  MustElements / MustClick may panic.
FetchAdditionalDetails(i) ==
    /\ ~crashed
    /\ pc[i] = "details"
    /\ \/ Return(i, TRUE, outcome[i].RawHTML, "nil") /\ UNCHANGED <<stepFrame, navs>>
       \/ Panic

NextQuery ==
    \/ Tick
    \/ \E i \in Workers : Call(i)
    \/ \E i \in Workers : Lock(i)
    \/ \E i \in Workers : GetOrCreatePage(i)
    \/ \E i \in Workers : Expire(i)
    \/ \E i \in Workers : Navigate(i)
    \/ \E i \in Workers : WaitLoad(i)
    \/ \E i \in Workers : FillCaseType(i)
    \/ \E i \in Workers : FillCaseNumber(i)
    \/ \E i \in Workers : FillYear(i)
    \/ \E i \in Workers : ResolveCaptcha(i)
    \/ \E i \in Workers : Submit(i)
    \/ \E i \in Workers : CheckForErrors(i)
    \/ \E i \in Workers : ParseResults(i)
    \/ \E i \in Workers : FetchAdditionalDetails(i)

SpecQuery == InitQuery /\ [][NextQuery]_vars

\* ======================================================================
\* handleCaptcha and its solver steps (captcha.go = src/unnamed/part_002)
\* ======================================================================
\* Time is in whole seconds: time.Sleep(d) takes d seconds, every other
\* statement takes none.  Texts are sequences of characters, "" is <<>>.

\* for i := 0; i < 30; i++ in solveCaptchaWith2Captcha / solveCaptchaWithAntiCaptcha
OcrPolls == 30
\* time.Sleep(3 * time.Second) in both OCR loops
OcrSleep == 3
\* for i := 0; i < 60; i++ in waitForManualCaptchaInput
ManualPolls == 60
\* time.Sleep(1 * time.Second) in waitForManualCaptchaInput
ManualSleep == 1
\* s.waitForManualSolution(captchaID, 60*time.Second)
RemoteTimeout == 60
\* time.Sleep(2 * time.Second) in waitForManualSolution
RemoteSleep == 2

\* The errors handleCaptcha returns; "nil" is success, "pending" not returned yet.
ErrGetImage == "failed to get CAPTCHA image"
ErrManual == "manual CAPTCHA input failed"
ErrUnsolved == "failed to solve CAPTCHA with all available methods"
ErrInputField == "CAPTCHA input field not found"

\* What an OCR service may answer, what an operator may type into the page,
\* and what an operator may write into the solution file.
OcrTexts == { <<>>, <<"x", "7">> }
TypedTexts == { <<"x", "7">> }
SolutionTexts == { <<>>, <<" ">>, <<"x", "7">>, <<"x", "7", " ">> }

\* strings.TrimSpace
RECURSIVE TrimLeft(_)
TrimLeft(s) == IF s /= <<>> /\ Head(s) = " " THEN TrimLeft(Tail(s)) ELSE s

RECURSIVE TrimRight(_)
TrimRight(s) ==
    IF s /= <<>> /\ s[Len(s)] = " " THEN TrimRight(SubSeq(s, 1, Len(s) - 1)) ELSE s

TrimSpace(s) == TrimRight(TrimLeft(s))

\* captchaID := fmt.Sprintf("captcha_%d", time.Now().Unix())
CaptchaID(t) == <<"captcha", t>>

\* fmt.Sprintf("%s/%s.png", captchaDir, captchaID) and "./data/captchas/%s.txt"
ImageFile(id) == <<id, "png">>
SolutionFile(id) == <<id, "txt">>

WriteFile(fs, name, data) ==
    [f \in DOMAIN fs \cup {name} |-> IF f = name THEN data ELSE fs[f]]

\* os.Remove: removing a missing file is an error the code ignores.
Remove(fs, name) == [f \in DOMAIN fs \ {name} |-> fs[f]]

NoID == <<"captcha", -1>>

\* The state of one handleCaptcha call before its first statement.
ChainStart(two, anti, headless) ==
    [ pc |-> "start",
      twoKey |-> two,            \* os.Getenv("TWOCAPTCHA_API_KEY") != ""
      antiKey |-> anti,          \* os.Getenv("ANTICAPTCHA_API_KEY") != ""
      headless |-> headless,     \* s.cfg.HeadlessMode
      detected |-> FALSE,        \* page.Element found the CAPTCHA image
      captured |-> FALSE,        \* getCaptchaImage returned the image
      codeShown |-> FALSE,       \* SearchCase found #captcha-code before the call
      codeTyped |-> FALSE,       \* SearchCase typed the displayed code into #captchaInput
      captchaText |-> <<>>,
      solveErr |-> "nil",
      i |-> 0,                   \* the counter of the running poll loop
      captchaID |-> NoID,
      deadline |-> -1,           \* deadline of waitForManualSolution
      reads |-> 0,               \* os.ReadFile calls of waitForManualSolution
      lastRead |-> -1,           \* time of the last of them
      inputValue |-> <<>>,       \* value of the page's CAPTCHA input field
      entered |-> <<>>,          \* what handleCaptcha typed into the form
      everWritten |-> FALSE,     \* a solution file was written for this call
      log |-> <<>>,              \* the solver steps this call has started, in order
      ret |-> "pending" ]

InitChain ==
    /\ BatchStart(<<>>, 1)
    /\ chain \in { ChainStart(two, anti, headless) :
                     two \in BOOLEAN, anti \in BOOLEAN, headless \in BOOLEAN }
    /\ files = <<>>
    /\ ExtInit

chainFrame == <<batchVars, crashed, extVars>>

\* return from handleCaptcha with err
ChainReturn(c, err) == [c EXCEPT !.pc = "done", !.ret = err]

\* captchaImg, err := page.Element("img#captcha_image, ..."); if err != nil ||
\* captchaImg == nil { return nil }; captchaData, err := s.getCaptchaImage(...)
DetectCaptcha ==
    /\ chain.pc = "start"
    /\ \/ chain' = ChainReturn(chain, "nil")
       \/ chain' = ChainReturn([chain EXCEPT !.detected = TRUE], ErrGetImage)
       \/ chain' = [chain EXCEPT !.pc = "two", !.detected = TRUE, !.captured = TRUE]
    /\ UNCHANGED <<chainFrame, now, files>>

\* if twoCaptchaKey != "" { captchaText, solveErr = s.solveCaptchaWith2Captcha(...) }
\* up to the poll loop: a failed submission returns ("", err).  http.PostForm
\* uses http.DefaultClient, which has no timeout: the call may never return.
TwoCaptchaSubmit ==
    /\ chain.pc = "two"
    /\ IF chain.twoKey
       THEN LET c == [chain EXCEPT !.log = Append(@, "two")] IN
            \/ chain' = [c EXCEPT !.pc = "anti", !.solveErr = "2captcha submission failed"]
            \/ chain' = [c EXCEPT !.pc = "two_poll", !.i = 0]
            \/ chain' = [c EXCEPT !.pc = "blocked"]
       ELSE chain' = [chain EXCEPT !.pc = "anti"]
    /\ UNCHANGED <<chainFrame, now, files>>

\* One iteration of an OCR poll loop: sleep 3 s, ask for the result.
\*   request failed (continue) or not ready: next iteration
\*   ready: return the text, which may be empty
\*   any other answer (2Captcha only): return an error
OcrPoll(c, after, answers, errs) ==
    {[c EXCEPT !.i = @ + 1]}
    \cup {[c EXCEPT !.pc = after, !.captchaText = t, !.solveErr = "nil"] : t \in answers}
    \cup {[c EXCEPT !.pc = after, !.solveErr = e] : e \in errs}
    \cup {[c EXCEPT !.pc = "blocked"]}

\* for i := 0; i < 30; i++ { time.Sleep(3s); resp, err := http.Get(resultURL) ... }
\* return "", fmt.Errorf("2captcha timeout")
TwoCaptchaPoll ==
    /\ chain.pc = "two_poll"
    /\ IF chain.i < OcrPolls
       THEN /\ chain' \in OcrPoll(chain, "anti", OcrTexts, {"2captcha error"})
            /\ now' = now + OcrSleep
       ELSE /\ chain' = [chain EXCEPT !.pc = "anti", !.solveErr = "2captcha timeout"]
            /\ now' = now
    /\ UNCHANGED <<chainFrame, files>>

\* A test that lets a step run whatever the steps before it yielded.
SolvedOrNot(c) == TRUE

\* if captchaText == "": the test in front of the Anti-Captcha step and of
\* the remote handoff.
Unsolved(c) == c.captchaText = <<>>

\* if captchaText == "" { if antiCaptchaKey != "" { ... solveCaptchaWithAntiCaptcha } }
\* up to the poll loop: createTask failing returns ("", err).
AntiCaptchaSubmit ==
    /\ chain.pc = "anti"
    /\ IF Unsolved(chain) /\ chain.antiKey
       THEN LET c == [chain EXCEPT !.log = Append(@, "anti")] IN
            \/ chain' = [c EXCEPT !.pc = "manual", !.solveErr = "anti-captcha error"]
            \/ chain' = [c EXCEPT !.pc = "anti_poll", !.i = 0]
            \/ chain' = [c EXCEPT !.pc = "blocked"]
       ELSE chain' = [chain EXCEPT !.pc = "manual"]
    /\ UNCHANGED <<chainFrame, now, files>>

\* for i := 0; i < 30; i++ { time.Sleep(3s); ... if result.Status == "ready"
\* { return result.Solution.Text, nil } }; return "", "anti-captcha timeout"
AntiCaptchaPoll ==
    /\ chain.pc = "anti_poll"
    /\ IF chain.i < OcrPolls
       THEN /\ chain' \in OcrPoll(chain, "manual", OcrTexts, {})
            /\ now' = now + OcrSleep
       ELSE /\ chain' = [chain EXCEPT !.pc = "manual", !.solveErr = "anti-captcha timeout"]
            /\ now' = now
    /\ UNCHANGED <<chainFrame, files>>

\* An interactive step taken in headless sessions too.
ManualInAnyMode(c) == c.captchaText = <<>>

\* The interactive step is taken when no text was found and the session is
\* not headless.
ManualAllowed(c) == c.captchaText = <<>> /\ ~c.headless

\* if captchaText == "" && !s.cfg.HeadlessMode { waitForManualCaptchaInput }:
\* page.MustEval(alert(...)) opens a modal dialog and returns when it is
\* dismissed; it panics when the evaluation fails.
ManualStart ==
    /\ chain.pc = "manual"
    /\ IF ManualAllowed(chain)
       THEN LET c == [chain EXCEPT !.log = Append(@, "manual")] IN
            \/ chain' = [c EXCEPT !.pc = "alert"]
            \/ chain' = [c EXCEPT !.pc = "panicked"]
       ELSE chain' = [chain EXCEPT !.pc = "remote"]
    /\ UNCHANGED <<chainFrame, now, files>>

\* The operator clicks OK; then captchaInput, err := page.Element(...):
\* on error waitForManualCaptchaInput returns ("", err) and handleCaptcha
\* returns "manual CAPTCHA input failed".
DismissAlert ==
    /\ chain.pc = "alert"
    /\ \/ chain' = [chain EXCEPT !.pc = "manual_poll", !.i = 0]
       \/ chain' = ChainReturn([chain EXCEPT !.solveErr = "element not found"], ErrManual)
    /\ UNCHANGED <<chainFrame, now, files>>

\* The operator types into the CAPTCHA input field of the page.
TypeInput ==
    /\ chain.pc \in {"alert", "manual_poll"}
    /\ chain.inputValue = <<>>
    /\ \E t \in TypedTexts : chain' = [chain EXCEPT !.inputValue = t]
    /\ UNCHANGED <<chainFrame, now, files>>

\* for i := 0; i < 60; i++ { time.Sleep(1s); value, err := captchaInput.Property("value")
\* if err == nil && value.String() != "" { return value.String(), nil } }
\* return "", "manual CAPTCHA input timeout" -> handleCaptcha returns an error.
ManualPoll ==
    /\ chain.pc = "manual_poll"
    /\ IF chain.i < ManualPolls
       THEN /\ \/ chain' = [chain EXCEPT !.i = @ + 1]
               \/ /\ chain.inputValue /= <<>>
                  /\ chain' = [chain EXCEPT !.pc = "remote", !.solveErr = "nil",
                                            !.captchaText = chain.inputValue]
            /\ now' = now + ManualSleep
       ELSE /\ chain' = ChainReturn([chain EXCEPT !.solveErr = "manual CAPTCHA input timeout"],
                                    ErrManual)
            /\ now' = now
    /\ UNCHANGED <<chainFrame, files>>

\* if captchaText == "" { captchaID := ...; if err := saveCaptchaForManualSolving(
\* captchaID, captchaData); err == nil { captchaText, solveErr =
\* s.waitForManualSolution(captchaID, 60*time.Second) } }
\* up to deadline := time.Now().Add(timeout).
RemoteStart ==
    /\ chain.pc = "remote"
    /\ IF Unsolved(chain)
       THEN \/ /\ chain' = [chain EXCEPT !.pc = "final", !.captchaID = CaptchaID(now),
                                         !.log = Append(@, "remote")]
               /\ files' = files
            \/ /\ chain' = [chain EXCEPT !.pc = "remote_wait", !.captchaID = CaptchaID(now),
                                         !.deadline = now + RemoteTimeout,
                                         !.log = Append(@, "remote")]
               /\ files' = WriteFile(files, ImageFile(CaptchaID(now)), <<"i", "m", "g">>)
       ELSE /\ chain' = [chain EXCEPT !.pc = "final"]
            /\ files' = files
    /\ UNCHANGED <<chainFrame, now>>

\* A loop test that lets one more poll start at the deadline itself.
NotAfterDeadline(t, deadline) == t <= deadline

\* The loop test of waitForManualSolution: time.Now().Before(deadline).
BeforeDeadline(t, deadline) == t < deadline

\* for time.Now().Before(deadline) { if data, err := os.ReadFile(solutionFile);
\* err == nil { solution := strings.TrimSpace(string(data)); if solution != "" {
\* os.Remove(solutionFile); os.Remove(png); return solution, nil } }
\* time.Sleep(2s) }; return "", "timeout waiting for manual solution"
RemoteWait ==
    /\ chain.pc = "remote_wait"
    /\ LET txt == SolutionFile(chain.captchaID)
           png == ImageFile(chain.captchaID)
           read == [chain EXCEPT !.reads = @ + 1, !.lastRead = now]
       IN IF BeforeDeadline(now, chain.deadline)
          THEN IF txt \in DOMAIN files /\ TrimSpace(files[txt]) /= <<>>
               THEN /\ chain' = [read EXCEPT !.pc = "final", !.solveErr = "nil",
                                             !.captchaText = TrimSpace(files[txt])]
                    /\ files' = Remove(Remove(files, txt), png)
                    /\ now' = now
               ELSE /\ chain' = read
                    /\ files' = files
                    /\ now' = now + RemoteSleep
          ELSE /\ chain' = [chain EXCEPT !.pc = "final",
                                         !.solveErr = "timeout waiting for manual solution"]
               /\ files' = files
               /\ now' = now
    /\ UNCHANGED chainFrame

\* An operator writes the solution file of the saved challenge.
WriteSolution ==
    /\ chain.pc = "remote_wait"
    /\ \E t \in SolutionTexts :
         /\ IF SolutionFile(chain.captchaID) \in DOMAIN files
            THEN files[SolutionFile(chain.captchaID)] /= t
            ELSE TRUE
         /\ files' = WriteFile(files, SolutionFile(chain.captchaID), t)
    /\ chain' = [chain EXCEPT !.everWritten = TRUE]
    /\ UNCHANGED <<chainFrame, now>>

\* if captchaText == "" { return "failed to solve CAPTCHA with all available
\* methods" }; captchaInput, err := page.Element(...); if err != nil { return
\* "CAPTCHA input field not found" }; captchaInput.MustInput(captchaText); return nil
EnterSolution ==
    /\ chain.pc = "final"
    /\ IF chain.captchaText = <<>>
       THEN chain' = ChainReturn(chain, ErrUnsolved)
       ELSE \/ chain' = ChainReturn(chain, ErrInputField)
            \/ chain' = [chain EXCEPT !.pc = "panicked"]
            \/ chain' = ChainReturn([chain EXCEPT !.entered = chain.captchaText], "nil")
    /\ UNCHANGED <<chainFrame, now, files>>

\* The statements of handleCaptcha itself.
ChainStep ==
    \/ DetectCaptcha
    \/ TwoCaptchaSubmit
    \/ TwoCaptchaPoll
    \/ AntiCaptchaSubmit
    \/ AntiCaptchaPoll
    \/ ManualStart
    \/ ManualPoll
    \/ RemoteStart
    \/ RemoteWait
    \/ EnterSolution

\* What the operator does.
OperatorStep ==
    \/ DismissAlert
    \/ TypeInput
    \/ WriteSolution

NextChain == ChainStep \/ OperatorStep

SpecChain == InitChain /\ [][NextChain]_vars

\* The goroutine running handleCaptcha keeps being scheduled; nothing makes
\* an operator or a remote server act.
SpecChainFair == SpecChain /\ WF_vars(ChainStep)

\* ----------------------------------------------------------------------
\* SearchCase around its handleCaptcha call (scraper.go:162-188)
\* ----------------------------------------------------------------------

\* The displayed-code block of SearchCase (scraper.go:164-181) has run:
\* #captcha-code was not found, or it was found and #captchaInput was not, or
\* the displayed code was typed into #captchaInput.
AfterDisplayedCode(c) ==
    { c, [c EXCEPT !.codeShown = TRUE], [c EXCEPT !.codeShown = TRUE, !.codeTyped = TRUE] }

\* SearchCase is about to call s.handleCaptcha(page).
InitCaptchaCall ==
    /\ \E q \in {CaseQuery("CS", "1234", "2023")} : BatchStartAt(<<q>>, 1, "captcha", 1)
    /\ files = <<>>
    /\ ExtInit
    /\ \E two \in BOOLEAN, anti \in BOOLEAN, headless \in BOOLEAN :
         chain \in AfterDisplayedCode(ChainStart(two, anti, headless))

\* A caller that goes on only when a solution was typed.
SolutionTyped(c) == c.ret = "nil" /\ c.entered /= <<>>

\* if err := s.handleCaptcha(page); err != nil { return ... }: the test the
\* call passes.
Passed(c) == c.ret = "nil"

\* handleCaptcha has returned to SearchCase: an error makes SearchCase return
\* "captcha handling failed", nil lets it go on to the submit block.
HandleCaptchaReturns(i) ==
    /\ ~crashed
    /\ pc[i] = "captcha"
    /\ chain.pc = "done"
    /\ tries' = [tries EXCEPT ![i] = @ + 1]
    /\ IF Passed(chain) THEN Goto(i, "submit") ELSE Return(i, FALSE, "", ErrCaptcha)
    /\ UNCHANGED <<callFrame, shown, navs>>

\* A Must* call inside handleCaptcha has panicked: the process dies.
ChainPanics ==
    /\ ~crashed
    /\ chain.pc = "panicked"
    /\ Panic

NextCaptchaCall ==
    \/ DetectCaptcha
    \/ TwoCaptchaSubmit
    \/ TwoCaptchaPoll
    \/ AntiCaptchaSubmit
    \/ AntiCaptchaPoll
    \/ ManualStart
    \/ ManualPoll
    \/ RemoteStart
    \/ RemoteWait
    \/ EnterSolution
    \/ DismissAlert
    \/ TypeInput
    \/ WriteSolution
    \/ ChainPanics
    \/ \E i \in Workers : HandleCaptchaReturns(i)

SpecCaptchaCall == InitCaptchaCall /\ [][NextCaptchaCall]_vars

\* ======================================================================
\* Scraper.Close (scraper.go:62-72)
\* ======================================================================

ErrBrowserClose == "browser close failed"

\* The scraper has been constructed and has no session yet; its callers are
\* about to call SearchCase.
InitClose ==
    /\ \E qs \in SeqUpTo({CaseQuery("CS", "1234", "2023")}, MaxQueries) : BatchStart(qs, 1)
    /\ chain = <<>>
    /\ files = <<>>
    /\ ExtInit

\* What Scraper.Close leaves alone.
closeFrame == <<tries, shown, queries, K, next, wg, sem, results, returned, pc, page,
                navs, expired, outcome, sessions, numPages, now, chain, files, remoteVars,
                cacheVars, apiVars, parserVars>>

\* A tab goes away outside Close: the renderer crashes, or the operator closes
\* the window of a non-headless browser.
TabCloses ==
    /\ ~crashed
    /\ browserUp
    /\ \E p \in (1..numPages) \ closed : closed' = closed \cup {p}
    /\ UNCHANGED <<closeFrame, mu, crashed, browserUp, closer>>

\* s.mu.Lock(); defer s.mu.Unlock(); for _, page := range s.sessions
CloseCall ==
    /\ ~crashed
    /\ closer.pc = "idle"
    /\ closer.calls < MaxCloses
    /\ MuFree
    /\ mu' = -1
    /\ closer' = [closer EXCEPT !.pc = "loop",
                                 !.todo = {sessions[sid] : sid \in DOMAIN sessions}]
    /\ UNCHANGED <<closeFrame, crashed, closed, browserUp>>

\* page.Close() succeeds on an open tab of a running browser; on a tab that is
\* gone, or with the browser gone, the call returns an error.
PageCloses(p) == browserUp /\ p \notin closed

\* page.MustClose() for the next page of the range loop (a map is ranged over
\* in any order): it panics when page.Close() returns an error.
ClosePage ==
    /\ ~crashed
    /\ closer.pc = "loop"
    /\ \E p \in closer.todo :
         IF PageCloses(p)
         THEN /\ closed' = closed \cup {p}
              /\ closer' = [closer EXCEPT !.todo = @ \ {p}]
              /\ UNCHANGED crashed
         ELSE /\ crashed' = TRUE
              /\ UNCHANGED <<closed, closer>>
    /\ UNCHANGED <<closeFrame, mu, browserUp>>

\* return s.Browser.Close(), then the deferred s.mu.Unlock(): the session map
\* is left as it was.
BrowserClose ==
    /\ ~crashed
    /\ closer.pc = "loop"
    /\ closer.todo = {}
    /\ browserUp' = FALSE
    /\ mu' = 0
    /\ closer' = [closer EXCEPT !.pc = "idle",
                                 !.calls = @ + 1,
                                 !.ret = IF browserUp THEN "nil" ELSE ErrBrowserClose]
    /\ UNCHANGED <<closeFrame, crashed, closed>>

NextClose ==
    \/ Tick
    \/ \E i \in Workers : Call(i)
    \/ \E i \in Workers : Lock(i)
    \/ \E i \in Workers : GetOrCreatePage(i)
    \/ TabCloses
    \/ CloseCall
    \/ ClosePage
    \/ BrowserClose

SpecClose == InitClose /\ [][NextClose]_vars

\* ----------------------------------------------------------------------
\* The session map over searches and Close (scraper.go:62-72, 75-229, 232-252)
\* ----------------------------------------------------------------------

\* A SearchCase that closes its page and deletes its entry when it ends.
ForgetSession(i) ==
    /\ sessions' = [sid \in { x \in DOMAIN sessions : sessions[x] /= page[i] } |-> sessions[sid]]
    /\ closed' = closed \cup {page[i]}

\* What the return statements of SearchCase and its one deferred call,
\* cancel(), do to the page of the query and to the session map: nothing.
AfterSearch(i) == UNCHANGED <<sessions, closed>>

\* SearchCase from the navigation to its return taken as one step: it
\* returns an outcome, or panics in a Must* call.
RunSearch(i) ==
    /\ ~crashed
    /\ pc[i] = "nav"
    /\ \/ /\ \E o \in BatchOutcomes : Return(i, o.CaseInfo, o.RawHTML, o.Error)
          /\ navs' = [navs EXCEPT ![i] = @ + 1]
          /\ AfterSearch(i)
          /\ UNCHANGED <<tries, shown, queries, K, next, wg, sem, results, returned, page, mu,
                         numPages, now, crashed, chain, files, browserUp, closer, remoteVars,
                         cacheVars, apiVars, parserVars>>
       \/ Panic

NextSessions ==
    \/ Tick
    \/ \E i \in Workers : Call(i)
    \/ \E i \in Workers : Lock(i)
    \/ \E i \in Workers : GetOrCreatePage(i)
    \/ \E i \in Workers : RunSearch(i)
    \/ CloseCall
    \/ ClosePage
    \/ BrowserClose

\* SearchCase callers and callers of Close on one scraper; no tab goes away
\* by itself.
SpecSessions == InitClose /\ [][NextSessions]_vars

\* ======================================================================
\* The remote handoff of concurrent queries (captcha.go:80-86, 313-338;
\* handlers.go:364-412)
\* ======================================================================

Digit == <<"1", "2", "3", "4">>

\* captchaData of query i: each query's page shows its own challenge.
ImageOf(i) == <<"img", Digit[i]>>

\* The text an operator reads off a challenge image.
Solve(img) == <<"x", img[2]>>

\* Queries of one batch, each of which has found a CAPTCHA and has no OCR text.
InitRemote ==
    /\ \E qs \in SeqUpTo({CaseQuery("CS", "1234", "2023")}, MaxQueries), k \in 1..MaxK :
         BatchStart(qs, k)
    /\ chain = <<>>
    /\ files = <<>>
    /\ ExtInit

remoteFrame == <<batchVars, crashed, chain, closeVars, cacheVars, apiVars, parserVars>>

\* captchaID := fmt.Sprintf("captcha_%d", time.Now().Unix());
\* saveCaptchaForManualSolving(captchaID, captchaData): os.WriteFile of
\* <id>.png; on an error the handoff is skipped.
SaveChallenge(i) ==
    /\ remote[i].pc = "idle"
    /\ \/ /\ remote' = [remote EXCEPT ![i].pc = "unsolved", ![i].captchaID = CaptchaID(now)]
          /\ files' = files
       \/ /\ remote' = [remote EXCEPT ![i].pc = "wait", ![i].captchaID = CaptchaID(now),
                                       ![i].deadline = now + RemoteTimeout]
          /\ files' = WriteFile(files, ImageFile(CaptchaID(now)), ImageOf(i))
    /\ UNCHANGED <<remoteFrame, now>>

\* One pass of the loop of waitForManualSolution that ends it: the solution
\* file holds text (it is consumed and both files are removed), or the
\* deadline has passed.  A pass that finds nothing sleeps and changes nothing.
PollSolution(i) ==
    /\ remote[i].pc = "wait"
    /\ LET txt == SolutionFile(remote[i].captchaID)
           png == ImageFile(remote[i].captchaID)
       IN IF BeforeDeadline(now, remote[i].deadline)
          THEN /\ txt \in DOMAIN files
               /\ TrimSpace(files[txt]) /= <<>>
               /\ remote' = [remote EXCEPT ![i].pc = "solved",
                                            ![i].text = TrimSpace(files[txt])]
               /\ files' = Remove(Remove(files, txt), png)
          ELSE /\ remote' = [remote EXCEPT ![i].pc = "unsolved"]
               /\ files' = files
    /\ UNCHANGED <<remoteFrame, now>>

\* GET /api/captcha/:id then POST /api/captcha/:id/solve: the operator fetches
\* <id>.png and posts what it shows; SolveCaptcha writes it to <id>.txt.
OperatorSolves ==
    /\ \E t \in 0..MaxTime :
         /\ ImageFile(CaptchaID(t)) \in DOMAIN files
         /\ SolutionFile(CaptchaID(t)) \notin DOMAIN files
         /\ files' = WriteFile(files, SolutionFile(CaptchaID(t)),
                               Solve(files[ImageFile(CaptchaID(t))]))
    /\ UNCHANGED <<remoteFrame, now, remote>>

NextRemote ==
    \/ Tick
    \/ OperatorSolves
    \/ \E i \in Workers : SaveChallenge(i)
    \/ \E i \in Workers : PollSolution(i)

SpecRemote == InitRemote /\ [][NextRemote]_vars

\* ======================================================================
\* LRUCache (internal/cache/cache.go)
\* ======================================================================

InitCache ==
    /\ BatchStart(<<>>, 1)
    /\ chain = <<>>
    /\ files = <<>>
    /\ ExtInit

cacheFrame == <<batchVars, now, crashed, chain, files, closeVars, remoteVars, apiVars, parserVars>>

\* A goroutine calls an operation of the cache.
CacheCall(c) ==
    /\ callers[c].pc = "idle"
    /\ lru.clock % CacheTTL < MaxClock
    /\ \E op \in {"Get", "Set", "Delete", "Clear", "Stats"}, k \in CacheKeys :
         callers' = [callers EXCEPT ![c] = [pc |-> "lock", op |-> op,
                         key |-> IF op \in {"Clear", "Stats"} THEN "none" ELSE k]]
    /\ UNCHANGED <<cacheFrame, lru>>

\* c.mu.Lock() in Get, Set, Delete and Clear; c.mu.RLock() in Stats.
CacheLock(c) ==
    /\ callers[c].pc = "lock"
    /\ lru.writer = 0
    /\ IF callers[c].op = "Stats"
       THEN lru' = [lru EXCEPT !.readers = @ \cup {c}]
       ELSE /\ lru.readers = {}
            /\ lru' = [lru EXCEPT !.writer = c]
    /\ callers' = [callers EXCEPT ![c].pc = "body"]
    /\ UNCHANGED cacheFrame

\* The caller returns: defer c.mu.Unlock() / c.mu.RUnlock().
Unlocked(l, c) == [l EXCEPT !.writer = IF @ = c THEN 0 ELSE @, !.readers = @ \ {c}]

Done(c) == callers' = [callers EXCEPT ![c] = [pc |-> "idle", op |-> "none", key |-> "none"]]

\* go-cache Get: the item is found when it is present and has not expired.
Found(l, k) == k \in DOMAIN l.items /\ l.items[k] > l.clock

Put(f, k, v) == [x \in DOMAIN f \cup {k} |-> IF x = k THEN v ELSE f[x]]

Drop(f, k) == [x \in DOMAIN f \ {k} |-> f[x]]

\* Get: LastAccess = now; a hit counts in Hits, a miss in Misses.  The item
\* itself is not touched.
CacheGet(c) ==
    /\ callers[c].pc = "body" /\ callers[c].op = "Get"
    /\ LET k == callers[c].key
           t == lru.clock + 1
       IN lru' = Unlocked(
            IF Found(lru, k)
            THEN [lru EXCEPT !.clock = t, !.stats.Hits = @ + 1,
                             !.lastUse = Put(@, k, t)]
            ELSE [lru EXCEPT !.clock = t, !.stats.Misses = @ + 1], c)
    /\ Done(c)
    /\ UNCHANGED cacheFrame

\* removeOldest: the key whose item.Expiration is smallest (the loop keeps an
\* item when its Expiration is below the one kept so far; the map is ranged
\* over in any order, so among equal expirations any may be kept).
Oldest(items) == { k \in DOMAIN items : \A j \in DOMAIN items : items[k] <= items[j] }

\* go-cache ItemCount: every item in the map, the expired ones that have not
\* been cleaned up included.
ItemCount(l) == Cardinality(DOMAIN l.items)

\* go-cache Items: a copy of the unexpired items only.
Items(l) == [k \in { j \in DOMAIN l.items : l.items[j] > l.clock } |-> l.items[k]]

\* removeOldest: items := c.cache.Items(); if len(items) == 0 { return };
\* otherwise the oldest of them is deleted.
RemoveOldest(l) ==
    IF DOMAIN Items(l) = {}
    THEN { l.items }
    ELSE { Drop(l.items, o) : o \in Oldest(Items(l)) }

\* Set: if c.cache.ItemCount() >= c.maxSize { c.removeOldest() }; then
\* c.cache.Set(key, value, DefaultExpiration), which stores now + ttl.
CacheSet(c) ==
    /\ callers[c].pc = "body" /\ callers[c].op = "Set"
    /\ LET k == callers[c].key
           t == lru.clock + 1
       IN \E kept \in IF ItemCount(lru) >= MaxSize
                       THEN RemoveOldest(lru)
                       ELSE { lru.items } :
            lru' = Unlocked([lru EXCEPT !.clock = t,
                                        !.items = Put(kept, k, t + CacheTTL),
                                        !.lastUse = Put(@, k, t)], c)
    /\ Done(c)
    /\ UNCHANGED cacheFrame

\* Delete: c.cache.Delete(key)
CacheDelete(c) ==
    /\ callers[c].pc = "body" /\ callers[c].op = "Delete"
    /\ lru' = Unlocked([lru EXCEPT !.items = Drop(@, callers[c].key)], c)
    /\ Done(c)
    /\ UNCHANGED cacheFrame

\* Clear: c.cache.Flush(); c.stats = CacheStats{}
CacheClear(c) ==
    /\ callers[c].pc = "body" /\ callers[c].op = "Clear"
    /\ lru' = Unlocked([lru EXCEPT !.items = <<>>, !.stats = ZeroStats], c)
    /\ Done(c)
    /\ UNCHANGED cacheFrame

\* Stats: c.stats.Size = c.cache.ItemCount(); return c.stats
CacheStats(c) ==
    /\ callers[c].pc = "body" /\ callers[c].op = "Stats"
    /\ lru' = Unlocked([lru EXCEPT !.stats.Size = Cardinality(DOMAIN lru.items)], c)
    /\ Done(c)
    /\ UNCHANGED cacheFrame

NextCache ==
    \/ \E c \in Callers : CacheCall(c)
    \/ \E c \in Callers : CacheLock(c)
    \/ \E c \in Callers : CacheGet(c)
    \/ \E c \in Callers : CacheSet(c)
    \/ \E c \in Callers : CacheDelete(c)
    \/ \E c \in Callers : CacheClear(c)
    \/ \E c \in Callers : CacheStats(c)

SpecCache == InitCache /\ [][NextCache]_vars

\* ----------------------------------------------------------------------
\* The cache over time: items expire ttl after their Set, and go-cache's
\* janitor deletes expired items every 2 * ttl (NewCache, cache.go:37).
\* ----------------------------------------------------------------------

\* Nothing calls the cache for a ttl.
TimePasses ==
    /\ lru.clock \div CacheTTL < MaxWaits
    /\ lru' = [lru EXCEPT !.clock = @ + CacheTTL]
    /\ UNCHANGED <<cacheFrame, callers>>

\* The janitor's tick: DeleteExpired removes the items whose Expiration has
\* passed.  It takes go-cache's own lock, not c.mu.
Janitor ==
    /\ \E k \in DOMAIN lru.items : lru.items[k] < lru.clock
    /\ lru' = [lru EXCEPT !.items = [k \in { j \in DOMAIN @ : @[j] >= lru.clock } |-> @[k]]]
    /\ UNCHANGED <<cacheFrame, callers>>

\* One goroutine calls the cache, one call after the other.
NextExpiry ==
    \/ CacheCall(1)
    \/ CacheLock(1)
    \/ CacheGet(1)
    \/ CacheSet(1)
    \/ CacheDelete(1)
    \/ CacheClear(1)
    \/ CacheStats(1)
    \/ TimePasses
    \/ Janitor

SpecExpiry == InitCache /\ [][NextExpiry]_vars

\* ======================================================================
\* GET /api/case (internal/api/handlers.go:205-251)
\* ======================================================================

\* The query strings a client may send: c.Query gives "" for a missing or
\* empty parameter.
Requests == [type : {"", "CS"}, number : {"", "1234", "5678"}, year : {"", "2023"}]

\* cache.GenerateCacheKey: fmt.Sprintf("case:%s:%s:%s", ...)
GenerateCacheKey(t, n, y) == <<"case", t, n, y>>

InitApi ==
    /\ BatchStart(<<>>, 1)
    /\ chain = <<>>
    /\ files = <<>>
    /\ ExtInit

apiFrame == <<batchVars, now, crashed, chain, files, closeVars, remoteVars, callers, parserVars>>

\* The router hands a request to GetCaseAPI.
ApiRequest ==
    /\ api.pc = "idle"
    /\ lru.clock < MaxClock
    /\ \E r \in Requests : api' = [ApiIdle EXCEPT !.pc = "validate", !.req = r]
    /\ UNCHANGED <<apiFrame, lru>>

\* A parameter is missing when only the case type is looked at.
MissingType(r) == r.type = ""

\* if caseType == "" || caseNumber == "" || filingYear == ""
MissingParams(r) == r.type = "" \/ r.number = "" \/ r.year = ""

\* The check of the parameters: 400 and return, or go on to the cache.
ApiValidate ==
    /\ api.pc = "validate"
    /\ api' = IF MissingParams(api.req)
              THEN [api EXCEPT !.pc = "done", !.status = 400]
              ELSE [api EXCEPT !.pc = "lookup"]
    /\ UNCHANGED <<apiFrame, lru>>

\* if cachedCase, found := h.cache.Get(cacheKey); found { 200, fromCache }
ApiCacheLookup ==
    /\ api.pc = "lookup"
    /\ LET k == GenerateCacheKey(api.req.type, api.req.number, api.req.year)
           t == lru.clock + 1
       IN IF Found(lru, k)
          THEN /\ lru' = [lru EXCEPT !.clock = t, !.stats.Hits = @ + 1,
                                     !.lastUse = Put(@, k, t)]
               /\ api' = [api EXCEPT !.pc = "done", !.status = 200, !.usedCache = TRUE]
          ELSE /\ lru' = [lru EXCEPT !.clock = t, !.stats.Misses = @ + 1]
               /\ api' = [api EXCEPT !.pc = "scrape", !.usedCache = TRUE]
    /\ UNCHANGED apiFrame

\* The result of a failed scrape is stored like that of a successful one.
StoreAnyway(a) == [a EXCEPT !.pc = "store"]

\* if err != nil { c.JSON(http.StatusInternalServerError, ...); return }
ScrapeFailed(a) == [a EXCEPT !.pc = "done", !.status = 500]

\* caseInfo, _, err := h.scraper.SearchCase(...); if err != nil { 500 }
ApiScrape ==
    /\ api.pc = "scrape"
    /\ \/ api' = ScrapeFailed([api EXCEPT !.usedScraper = TRUE, !.err = "scrape"])
       \/ api' = [api EXCEPT !.pc = "store", !.usedScraper = TRUE]
    /\ UNCHANGED <<apiFrame, lru>>

\* h.cache.Set(cacheKey, caseInfo); 200
ApiCacheStore ==
    /\ api.pc = "store"
    /\ LET k == GenerateCacheKey(api.req.type, api.req.number, api.req.year)
           t == lru.clock + 1
       IN \E kept \in IF ItemCount(lru) >= MaxSize
                       THEN RemoveOldest(lru)
                       ELSE { lru.items } :
            lru' = [lru EXCEPT !.clock = t, !.items = Put(kept, k, t + CacheTTL),
                               !.lastUse = Put(@, k, t)]
    /\ api' = [api EXCEPT !.pc = "done", !.status = 200]
    /\ UNCHANGED apiFrame

\* The response has been written; the handler returns.
ApiReturn ==
    /\ api.pc = "done"
    /\ api' = ApiIdle
    /\ UNCHANGED <<apiFrame, lru>>

NextApi ==
    \/ ApiRequest
    \/ ApiValidate
    \/ ApiCacheLookup
    \/ ApiScrape
    \/ ApiCacheStore
    \/ ApiReturn

SpecApi == InitApi /\ [][NextApi]_vars

\* ======================================================================
\* parseCaseDetailsFromTable and parseDate (parser.go = src/unnamed/part_002)
\* ======================================================================

Digits == <<"0", "1", "2", "3", "4", "5", "6", "7", "8", "9">>

IsDigit(ch) == \E k \in DOMAIN Digits : Digits[k] = ch

\* The value of a decimal digit.
Num(ch) == (CHOOSE k \in DOMAIN Digits : Digits[k] = ch) - 1

\* time.Time{} and a calendar date.
ZeroDate == [y |-> 1, m |-> 1, d |-> 1]

NoDate == [y |-> 0, m |-> 0, d |-> 0]

\* The lowercased month names, January first.
MonthNames ==
    << <<"j", "a", "n", "u", "a", "r", "y">>,
       <<"f", "e", "b", "r", "u", "a", "r", "y">>,
       <<"m", "a", "r", "c", "h">>,
       <<"a", "p", "r", "i", "l">>,
       <<"m", "a", "y">>,
       <<"j", "u", "n", "e">>,
       <<"j", "u", "l", "y">>,
       <<"a", "u", "g", "u", "s", "t">>,
       <<"s", "e", "p", "t", "e", "m", "b", "e", "r">>,
       <<"o", "c", "t", "o", "b", "e", "r">>,
       <<"n", "o", "v", "e", "m", "b", "e", "r">>,
       <<"d", "e", "c", "e", "m", "b", "e", "r">> >>

\* The lowercased names the second pass of parseDate removes.
DayNames ==
    { <<"m", "o", "n", "d", "a", "y">>,
      <<"t", "u", "e", "s", "d", "a", "y">>,
      <<"w", "e", "d", "n", "e", "s", "d", "a", "y">>,
      <<"t", "h", "u", "r", "s", "d", "a", "y">>,
      <<"f", "r", "i", "d", "a", "y">>,
      <<"s", "a", "t", "u", "r", "d", "a", "y">>,
      <<"s", "u", "n", "d", "a", "y">> }

HasPrefix(s, pre) == Len(s) >= Len(pre) /\ SubSeq(s, 1, Len(pre)) = pre

Rest(s, n) == SubSeq(s, n + 1, Len(s))

HasSuffix(s, suf) == Len(s) >= Len(suf) /\ SubSeq(s, Len(s) - Len(suf) + 1, Len(s)) = suf

\* regexp `\s+` replaced by " ": runs of spaces become one space.
RECURSIVE CollapseSpaces(_)
CollapseSpaces(s) ==
    IF Len(s) < 2 THEN s
    ELSE IF s[1] = " " /\ s[2] = " " THEN CollapseSpaces(Tail(s))
    ELSE <<s[1]>> \o CollapseSpaces(Tail(s))

\* A second pass that leaves the day names in.
KeepDayNames(s) == s

\* regexp `(?i)(Monday|...|Sunday),?\s*` replaced by "".
RECURSIVE StripDayNames(_)
StripDayNames(s) ==
    IF s = <<>> THEN s
    ELSE IF \E dn \in DayNames : HasPrefix(ToLower(s), dn)
    THEN LET dn == CHOOSE x \in DayNames : HasPrefix(ToLower(s), x)
             r1 == Rest(s, Len(dn))
             r2 == IF r1 /= <<>> /\ r1[1] = "," THEN Tail(r1) ELSE r1
         IN StripDayNames(TrimLeft(r2))
    ELSE <<s[1]>> \o StripDayNames(Tail(s))

\* The layouts of parseDate in its order, as the elements time.Parse reads:
\* "02" two-digit day, "01" two-digit month, "2006" four-digit year, "Jan"
\* and "January" month names, anything else literally.
LayoutsMonthFirst ==
    << <<"01", "-", "02", "-", "2006">>, <<"01", "/", "02", "/", "2006">>,
       <<"01", ".", "02", ".", "2006">>, <<"2006", "-", "02", "-", "01">> >>

Layouts ==
    << <<"02", "-", "01", "-", "2006">>,
       <<"02", "/", "01", "/", "2006">>,
       <<"02", ".", "01", ".", "2006">>,
       <<"02", "-", "Jan", "-", "2006">>,
       <<"02", "-", "January", "-", "2006">>,
       <<"02", " ", "Jan", " ", "2006">>,
       <<"02", " ", "January", " ", "2006">>,
       <<"2006", "-", "01", "-", "02">>,
       <<"Jan", " ", "02", ",", " ", "2006">>,
       <<"January", " ", "02", ",", " ", "2006">> >>

TwoDigits(s) == Len(s) >= 2 /\ IsDigit(s[1]) /\ IsDigit(s[2])

FourDigits(s) == Len(s) >= 4 /\ \A k \in 1..4 : IsDigit(s[k])

\* The months whose name, or whose name's first three letters, s begins with.
MonthsAt(s, short) ==
    { m \in DOMAIN MonthNames :
        HasPrefix(ToLower(s), IF short THEN SubSeq(MonthNames[m], 1, 3) ELSE MonthNames[m]) }

\* Reading s along a layout: the date read, or NoDate when an element does
\* not match or text is left over.
RECURSIVE ReadLayout(_, _, _)
ReadLayout(layout, s, acc) ==
    IF layout = <<>> THEN (IF s = <<>> THEN acc ELSE NoDate)
    ELSE LET el == Head(layout) IN
         IF el = "02"
         THEN IF TwoDigits(s)
              THEN ReadLayout(Tail(layout), Rest(s, 2), [acc EXCEPT !.d = Num(s[1]) * 10 + Num(s[2])])
              ELSE NoDate
         ELSE IF el = "01"
         THEN IF TwoDigits(s)
              THEN ReadLayout(Tail(layout), Rest(s, 2), [acc EXCEPT !.m = Num(s[1]) * 10 + Num(s[2])])
              ELSE NoDate
         ELSE IF el = "2006"
         THEN IF FourDigits(s)
              THEN ReadLayout(Tail(layout), Rest(s, 4),
                              [acc EXCEPT !.y = Num(s[1]) * 1000 + Num(s[2]) * 100
                                                + Num(s[3]) * 10 + Num(s[4])])
              ELSE NoDate
         ELSE IF el = "January"
         THEN IF MonthsAt(s, FALSE) /= {}
              THEN LET m == CHOOSE x \in MonthsAt(s, FALSE) : TRUE
                   IN ReadLayout(Tail(layout), Rest(s, Len(MonthNames[m])), [acc EXCEPT !.m = m])
              ELSE NoDate
         ELSE IF el = "Jan"
         THEN IF MonthsAt(s, TRUE) /= {}
              THEN LET m == CHOOSE x \in MonthsAt(s, TRUE) : TRUE
                   IN ReadLayout(Tail(layout), Rest(s, 3), [acc EXCEPT !.m = m])
              ELSE NoDate
         ELSE IF s /= <<>> /\ s[1] = el
              THEN ReadLayout(Tail(layout), Tail(s), acc)
              ELSE NoDate

DaysIn(m, y) ==
    IF m = 2 THEN (IF (y % 4 = 0 /\ y % 100 /= 0) \/ y % 400 = 0 THEN 29 ELSE 28)
    ELSE IF m \in {4, 6, 9, 11} THEN 30 ELSE 31

\* time.Parse(format, dateStr): the date, or NoDate for an error (text that
\* does not fit the layout, month or day out of range).
TimeParse(layout, s) ==
    LET r == ReadLayout(layout, s, ZeroDate)
    IN IF r /= NoDate /\ r.m \in 1..12 /\ r.d \in 1..DaysIn(r.m, r.y) THEN r ELSE NoDate

\* The first layout of the list, from position k on, that parses s.
RECURSIVE FirstParse(_, _, _)
FirstParse(layouts, k, s) ==
    IF k > Len(layouts) THEN NoDate
    ELSE IF TimeParse(layouts[k], s) /= NoDate THEN TimeParse(layouts[k], s)
    ELSE FirstParse(layouts, k + 1, s)

\* parseDate(dateStr): the value parseCaseDetailsFromTable stores, which is
\* time.Time{} when no layout parses the text (the error is dropped).
parseDate(dateStr) ==
    LET s1 == CollapseSpaces(TrimSpace(dateStr))
        p1 == FirstParse(Layouts, 1, s1)
        p2 == FirstParse(Layouts, 1, StripDayNames(s1))
    IN IF p1 /= NoDate THEN p1
       ELSE IF p2 /= NoDate THEN p2
       ELSE ZeroDate

\* regexp `\d{4}` FindString: the first four digits in a row, "" if none.
RECURSIVE FindYear(_)
FindYear(s) ==
    IF Len(s) < 4 THEN <<>>
    ELSE IF FourDigits(s) THEN SubSeq(s, 1, 4)
    ELSE FindYear(Tail(s))

\* caseInfo := &database.CaseInfo{}
EmptyInfo ==
    [CaseNumber |-> <<>>, CaseType |-> <<>>, FilingYear |-> <<>>, FilingDate |-> ZeroDate,
     NextHearing |-> ZeroDate, Status |-> <<>>, Judge |-> <<>>, CourtComplex |-> <<>>]

\* The keys the switch looks for in a label, by the case they belong to.
Key ==
    [CaseNumber |-> <<"c", "a", "s", "e", " ", "n", "u", "m", "b", "e", "r">>,
     Cnr |-> <<"c", "n", "r">>,
     CaseType |-> <<"c", "a", "s", "e", " ", "t", "y", "p", "e">>,
     FilingNumber |-> <<"f", "i", "l", "i", "n", "g", " ", "n", "u", "m", "b", "e", "r">>,
     FilingDate |-> <<"f", "i", "l", "i", "n", "g", " ", "d", "a", "t", "e">>,
     DateOfFiling |-> <<"d", "a", "t", "e", " ", "o", "f", " ", "f", "i", "l", "i", "n", "g">>,
     RegistrationDate |-> <<"r", "e", "g", "i", "s", "t", "r", "a", "t", "i", "o", "n", " ", "d", "a", "t", "e">>,
     NextDate |-> <<"n", "e", "x", "t", " ", "d", "a", "t", "e">>,
     NextHearing |-> <<"n", "e", "x", "t", " ", "h", "e", "a", "r", "i", "n", "g">>,
     Stage |-> <<"s", "t", "a", "g", "e">>,
     Status |-> <<"s", "t", "a", "t", "u", "s">>,
     Judge |-> <<"j", "u", "d", "g", "e">>,
     Coram |-> <<"c", "o", "r", "a", "m">>,
     Court |-> <<"c", "o", "u", "r", "t">>,
     CourtNumber |-> <<"c", "o", "u", "r", "t", " ", "n", "u", "m", "b", "e", "r">>]

\* One pass of the row loop: a row of fewer than two cells is skipped; else
\* the first case of the switch whose key the lowercased, trimmed label
\* contains sets its field from the trimmed second cell.
ApplyRow(info, cells) ==
    IF Len(cells) < 2 THEN info
    ELSE LET label == ToLower(TrimSpace(cells[1]))
             value == TrimSpace(cells[2])
         IN IF Contains(label, Key.CaseNumber) \/ Contains(label, Key.Cnr)
            THEN [info EXCEPT !.CaseNumber = value]
            ELSE IF Contains(label, Key.CaseType)
            THEN [info EXCEPT !.CaseType = value]
            ELSE IF Contains(label, Key.FilingNumber)
            THEN (IF FindYear(value) /= <<>> THEN [info EXCEPT !.FilingYear = FindYear(value)]
                  ELSE info)
            ELSE IF Contains(label, Key.FilingDate) \/ Contains(label, Key.DateOfFiling)
            THEN [info EXCEPT !.FilingDate = parseDate(value)]
            ELSE IF Contains(label, Key.RegistrationDate)
            THEN (IF info.FilingDate = ZeroDate THEN [info EXCEPT !.FilingDate = parseDate(value)]
                  ELSE info)
            ELSE IF Contains(label, Key.NextDate) \/ Contains(label, Key.NextHearing)
            THEN [info EXCEPT !.NextHearing = parseDate(value)]
            ELSE IF Contains(label, Key.Stage) \/ Contains(label, Key.Status)
            THEN [info EXCEPT !.Status = value]
            ELSE IF Contains(label, Key.Judge) \/ Contains(label, Key.Coram)
            THEN [info EXCEPT !.Judge = value]
            ELSE IF Contains(label, Key.Court) /\ ~Contains(label, Key.CourtNumber)
            THEN [info EXCEPT !.CourtComplex = value]
            ELSE info

\* First cells of rows of the details table.
Label ==
    [CaseNumber |-> <<"C", "a", "s", "e", " ", "N", "u", "m", "b", "e", "r", ":">>,
     FilingDate |-> <<"F", "i", "l", "i", "n", "g", " ", "D", "a", "t", "e", ":">>,
     NextHearingDate |-> <<"N", "e", "x", "t", " ", "H", "e", "a", "r", "i", "n", "g", " ", "D", "a", "t", "e", ":">>,
     CaseStatus |-> <<"C", "a", "s", "e", " ", "S", "t", "a", "t", "u", "s", ":">>,
     NextDate |-> <<" ", "N", "E", "X", "T", " ", "D", "A", "T", "E", " ">>,
     FilingNumber |-> <<"F", "i", "l", "i", "n", "g", " ", "N", "u", "m", "b", "e", "r">>,
     Heading |-> <<"C", "a", "s", "e", " ", "D", "e", "t", "a", "i", "l", "s">>]

\* Second cells of rows of the details table.
Value ==
    [CaseNumber |-> <<"C", "S", "/", "1", "2", "3", "4", "/", "2", "0", "2", "3">>,
     FilingDate |-> <<"1", "5", "-", "0", "3", "-", "2", "0", "2", "3">>,
     NextHearing |-> <<"2", "0", "-", "0", "2", "-", "2", "0", "2", "4">>,
     Pending |-> <<"P", "e", "n", "d", "i", "n", "g">>,
     Disposed |-> <<" ", "D", "i", "s", "p", "o", "s", "e", "d", " ">>,
     SlashDate |-> <<"0", "5", "/", "0", "4", "/", "2", "0", "2", "4">>,
     NamedDate |-> <<"M", "o", "n", "d", "a", "y", ",", " ", "0", "4", " ", " ", "M", "a", "r", "c", "h", " ", "2", "0", "2", "4">>,
     NoDate |-> <<"3", "1", "-", "0", "2", "-", "2", "0", "2", "3">>,
     FilingNumber |-> <<"F", "/", "7", "7", "/", "2", "0", "2", "2">>]

\* The table of TestParserWithSampleHTML.
SampleTable ==
    << <<Label.CaseNumber, Value.CaseNumber>>, <<Label.FilingDate, Value.FilingDate>>,
       <<Label.NextHearingDate, Value.NextHearing>>, <<Label.CaseStatus, Value.Pending>> >>

\* The rows a details table is made of here: the sample's rows, the same
\* labels with other values and spellings, a heading row of one cell.
RowSet ==
    { <<Label.CaseNumber, Value.CaseNumber>>, <<Label.FilingDate, Value.FilingDate>>,
      <<Label.NextHearingDate, Value.NextHearing>>, <<Label.CaseStatus, Value.Pending>>,
      <<Label.CaseStatus, Value.Disposed>>, <<Label.FilingDate, Value.NoDate>>,
      <<Label.NextDate, Value.SlashDate>>, <<Label.NextHearingDate, Value.NamedDate>>,
      <<Label.FilingNumber, Value.FilingNumber>>, <<Label.Heading>> }

Tables == SeqUpTo(RowSet, MaxRows) \cup {SampleTable}

InitTable ==
    /\ BatchStart(<<>>, 1)
    /\ chain = <<>>
    /\ files = <<>>
    /\ ServiceInit
    /\ \E t \in Tables : parser = [rows |-> t, i |-> 1, info |-> EmptyInfo]
    /\ dates = NoParse
    /\ orders = NoOrders
    /\ extract = NoExtract
    /\ parties = NoParties

\* for _, row := range rows { cells := row.MustElements("td, th"); ... }
ParseRow ==
    /\ parser.i <= Len(parser.rows)
    /\ parser' = [parser EXCEPT !.i = @ + 1, !.info = ApplyRow(@, parser.rows[parser.i])]
    /\ UNCHANGED <<batchVars, now, crashed, chain, files, closeVars, remoteVars, cacheVars,
                   apiVars, dates, orders, extract, parties>>

NextTable == ParseRow

SpecTable == InitTable /\ [][NextTable]_vars

\* ----------------------------------------------------------------------
\* One parseDate call, statement by statement (part_002:828-864)
\* ----------------------------------------------------------------------

\* return time.Time{}, fmt.Errorf("unable to parse date: %s", dateStr)
ErrDate == "unable to parse date"

\* Texts a date cell may hold: the spellings of 15 March 2023 the layouts
\* cover, the same behind a weekday name or with extra spaces, and texts no
\* layout reads.
DateText ==
    [Dash |-> <<"1", "5", "-", "0", "3", "-", "2", "0", "2", "3">>,
     Slash |-> <<"1", "5", "/", "0", "3", "/", "2", "0", "2", "3">>,
     ShortMonth |-> <<"1", "5", "-", "M", "a", "r", "-", "2", "0", "2", "3">>,
     LongMonth |-> <<"1", "5", " ", "M", "a", "r", "c", "h", " ", "2", "0", "2", "3">>,
     Iso |-> <<"2", "0", "2", "3", "-", "0", "3", "-", "1", "5">>,
     Weekday |-> <<"W", "e", "d", "n", "e", "s", "d", "a", "y", ",", " ", "1", "5", "-", "0", "3", "-", "2", "0", "2", "3">>,
     WeekdayLong |-> <<"w", "e", "d", "n", "e", "s", "d", "a", "y", " ", "1", "5", " ", "M", "a", "r", "c", "h", " ", "2", "0", "2", "3">>,
     Padded |-> <<" ", " ", "1", "5", " ", " ", "M", "a", "r", "c", "h", " ", " ", " ", "2", "0", "2", "3", " ">>,
     Dot |-> <<"1", "5", ".", "0", "3", ".", "2", "0", "2", "3">>,
     MonthFirst |-> <<"M", "a", "r", "c", "h", " ", "1", "5", ",", " ", "2", "0", "2", "3">>,
     NotADate |-> <<"n", "o", "t", "-", "a", "-", "d", "a", "t", "e">>,
     Empty |-> <<>>,
     BadDay |-> <<"3", "1", "-", "0", "4", "-", "2", "0", "2", "3">>,
     BadMonth |-> <<"1", "5", "-", "1", "3", "-", "2", "0", "2", "3">>,
     OneDigit |-> <<"5", "-", "0", "3", "-", "2", "0", "2", "3">>,
     Trailing |-> <<"1", "5", "-", "0", "3", "-", "2", "0", "2", "3", " ", "1", "0", ":", "3", "0">>]

DateInputs == { DateText[f] : f \in DOMAIN DateText }

\* The caller has called parseDate(dateStr).
InitDate ==
    /\ BatchStart(<<>>, 1)
    /\ chain = <<>>
    /\ files = <<>>
    /\ ServiceInit
    /\ parser = NoTable
    /\ orders = NoOrders
    /\ extract = NoExtract
    /\ parties = NoParties
    /\ \E t \in DateInputs : dates = [NoParse EXCEPT !.pc = "clean", !.input = t, !.s = t]

dateFrame == <<batchVars, now, crashed, chain, files, closeVars, remoteVars, cacheVars,
               apiVars, parser, orders, extract, parties>>

\* dateStr = strings.TrimSpace(dateStr); dateStr = regexp `\s+` -> " "
CleanDate ==
    /\ dates.pc = "clean"
    /\ LET c == CollapseSpaces(TrimSpace(dates.s))
       IN dates' = [dates EXCEPT !.pc = "formats", !.s = c, !.cleaned = c, !.pass = 1, !.k = 1]
    /\ UNCHANGED dateFrame

\* One iteration of for _, format := range formats { if date, err :=
\* time.Parse(format, dateStr); err == nil { return date, nil } }, in either loop.
TryFormat ==
    /\ dates.pc = "formats"
    /\ dates.k <= Len(Layouts)
    /\ LET t == TimeParse(Layouts[dates.k], dates.s)
       IN IF t /= NoDate
          THEN dates' = [dates EXCEPT !.pc = "done", !.date = t, !.err = "nil"]
          ELSE dates' = [dates EXCEPT !.k = @ + 1]
    /\ UNCHANGED dateFrame

\* After the first loop: dateStr = regexp day names -> ""; the second loop starts.
StripWeekday ==
    /\ dates.pc = "formats"
    /\ dates.k > Len(Layouts)
    /\ dates.pass = 1
    /\ dates' = [dates EXCEPT !.s = StripDayNames(@), !.pass = 2, !.k = 1]
    /\ UNCHANGED dateFrame

\* After the second loop: return time.Time{}, fmt.Errorf(...)
FailDate ==
    /\ dates.pc = "formats"
    /\ dates.k > Len(Layouts)
    /\ dates.pass = 2
    /\ dates' = [dates EXCEPT !.pc = "done", !.date = ZeroDate, !.err = ErrDate]
    /\ UNCHANGED dateFrame

NextDate ==
    \/ CleanDate
    \/ TryFormat
    \/ StripWeekday
    \/ FailDate

SpecDate == InitDate /\ [][NextDate]_vars

\* ----------------------------------------------------------------------
\* ParseOrders and makeAbsoluteURL (part_002:720-802, 866-889)
\* ----------------------------------------------------------------------

\* strings.Split(s, "/"): the pieces between the slashes.
RECURSIVE SplitSlash(_)
SplitSlash(s) ==
    IF \A k \in DOMAIN s : s[k] /= "/" THEN <<s>>
    ELSE LET k == CHOOSE x \in DOMAIN s : s[x] = "/" /\ \A j \in 1..(x - 1) : s[j] /= "/"
         IN <<SubSeq(s, 1, k - 1)>> \o SplitSlash(Rest(s, k))

\* strings.Join(parts, "/")
RECURSIVE JoinSlash(_)
JoinSlash(parts) ==
    IF parts = <<>> THEN <<>>
    ELSE IF Len(parts) = 1 THEN parts[1]
    ELSE parts[1] \o <<"/">> \o JoinSlash(Tail(parts))

\* makeAbsoluteURL(page, relativeURL) with pageURL := page.MustInfo().URL
makeAbsoluteURL(pageURL, relativeURL) ==
    IF HasPrefix(relativeURL, <<"h", "t", "t", "p", ":", "/", "/">>) \/ HasPrefix(relativeURL, <<"h", "t", "t", "p", "s", ":", "/", "/">>)
    THEN relativeURL
    ELSE LET parts == SplitSlash(pageURL) IN
         IF Len(parts) >= 3
         THEN IF HasPrefix(relativeURL, <<"/">>)
              THEN JoinSlash(SubSeq(parts, 1, 3)) \o relativeURL
              ELSE JoinSlash(SubSeq(parts, 1, Len(parts) - 1)) \o <<"/">> \o relativeURL
         ELSE relativeURL

\* The href test of the link loop.
IsOrderLink(href) ==
    \/ Contains(ToLower(href), <<"p", "d", "f">>)
    \/ Contains(ToLower(href), <<"d", "o", "w", "n", "l", "o", "a", "d">>)
    \/ Contains(ToLower(href), <<"o", "r", "d", "e", "r">>)

\* for _, link := range links { ... if matches { order.PDFLink = ...; break } }:
\* the first link of the cell that passes the test sets the field.
RECURSIVE LinkOfCell(_, _, _)
LinkOfCell(links, pageURL, link) ==
    IF links = <<>> THEN link
    ELSE IF IsOrderLink(Head(links)) THEN makeAbsoluteURL(pageURL, Head(links))
    ELSE LinkOfCell(Tail(links), pageURL, link)

\* for _, cell := range cells { ... }: every cell is visited, a later cell
\* with a passing link overwrites the field.
RECURSIVE LinkOfRow(_, _, _)
LinkOfRow(cells, pageURL, link) ==
    IF cells = <<>> THEN link
    ELSE LinkOfRow(Tail(cells), pageURL, LinkOfCell(Head(cells).links, pageURL, link))

\* An order from 1900 passing the date check.
ValidYearFrom1900(date) == date.y >= 1900

\* if order.OrderDate.Year() > 1900
ValidYear(date) == date.y > 1900

\* order := database.Order{} and the fields the loop body sets from the
\* cells of a row of at least two cells.
OrderOf(cells, pageURL) ==
    [OrderDate |-> IF TrimSpace(cells[1].text) /= <<>> THEN parseDate(TrimSpace(cells[1].text))
                   ELSE ZeroDate,
     Description |-> TrimSpace(cells[2].text),
     PDFLink |-> LinkOfRow(cells, pageURL, <<>>),
     JudgeName |-> IF Len(cells) > 2 THEN TrimSpace(cells[3].text) ELSE <<>>]

\* Texts of an orders page: its address, hrefs, dates, descriptions.
OrderText ==
    [Origin |-> <<"h", "t", "t", "p", "s", ":", "/", "/", "c", ".", "i", "n">>,
     Path |-> <<"/", "a", "p", "p", "/", "o", "r", "d", "e", "r", "s">>,
     OtherPath |-> <<"/", "o", "r", "d", "e", "r", "s">>,
     AbsolutePdf |-> <<"h", "t", "t", "p", "s", ":", "/", "/", "d", ".", "i", "n", "/", "o", ".", "p", "d", "f">>,
     RootPdf |-> <<"/", "f", "i", "l", "e", "s", "/", "o", ".", "P", "D", "F">>,
     DirPdf |-> <<"o", ".", "p", "d", "f">>,
     View |-> <<"v", "i", "e", "w", ".", "h", "t", "m", "l">>,
     Download |-> <<"/", "d", "o", "w", "n", "l", "o", "a", "d", "/", "7">>,
     Year1900 |-> <<"1", "5", "-", "0", "3", "-", "1", "9", "0", "0">>,
     Year1901 |-> <<"0", "1", "-", "0", "1", "-", "1", "9", "0", "1">>,
     Bail |-> <<"B", "a", "i", "l">>,
     Notice |-> <<"N", "o", "t", "i", "c", "e">>,
     Judge |-> <<"J", ".", " ", "R", "a", "o">>,
     Header |-> <<"D", "a", "t", "e">>]

\* A td cell: its text and the hrefs of the links in it.
Cell(text, links) == [text |-> text, links |-> links]

\* The rows an orders table is made of here.
OrderRows ==
    { <<Cell(DateText.Dash, <<>>), Cell(OrderText.Bail, <<>>), Cell(OrderText.Judge, <<OrderText.AbsolutePdf>>)>>,
      <<Cell(DateText.Slash, <<>>), Cell(OrderText.Notice, <<OrderText.View, OrderText.RootPdf>>)>>,
      <<Cell(DateText.Padded, <<>>), Cell(OrderText.Bail, <<OrderText.DirPdf>>), Cell(OrderText.Judge, <<OrderText.View>>)>>,
      <<Cell(OrderText.Year1900, <<>>), Cell(OrderText.Notice, <<OrderText.DirPdf>>)>>,
      <<Cell(OrderText.Year1901, <<>>), Cell(OrderText.Bail, <<>>)>>,
      <<Cell(DateText.NotADate, <<>>), Cell(OrderText.Notice, <<OrderText.RootPdf>>)>>,
      <<Cell(<<>>, <<>>), Cell(OrderText.Bail, <<OrderText.AbsolutePdf>>)>>,
      <<Cell(DateText.Dash, <<OrderText.DirPdf>>)>>,
      <<Cell(DateText.Iso, <<>>), Cell(OrderText.Notice, <<OrderText.DirPdf>>), Cell(<<>>, <<OrderText.Download>>)>> }

\* The addresses the orders page may have.
PageURLs == {OrderText.Origin \o OrderText.Path, OrderText.Origin \o OrderText.OtherPath}

\* ParseOrders has found the orders table: a header row and up to MaxRows rows.
InitOrders ==
    /\ BatchStart(<<>>, 1)
    /\ chain = <<>>
    /\ files = <<>>
    /\ ServiceInit
    /\ parser = NoTable
    /\ dates = NoParse
    /\ extract = NoExtract
    /\ parties = NoParties
    /\ \E t \in SeqUpTo(OrderRows, MaxRows), u \in PageURLs :
         orders = [pc |-> "rows", url |-> u, i |-> 1, out |-> <<>>,
                   rows |-> << <<Cell(OrderText.Header, <<>>)>> >> \o t]

ordersFrame == <<batchVars, now, crashed, chain, files, closeVars, remoteVars, cacheVars,
                 apiVars, parser, dates, extract, parties>>

\* One pass of for i := 1; i < len(rows); i++ { cells := ...; if len(cells) >= 2
\* { ...; if order.OrderDate.Year() > 1900 { orders = append(orders, order) } } }
\* (i counts from 0 in the code, rows[i + 1] is its rows[i]).
ParseOrderRow ==
    /\ orders.pc = "rows"
    /\ orders.i < Len(orders.rows)
    /\ LET cells == orders.rows[orders.i + 1]
           order == OrderOf(cells, orders.url)
       IN orders' = [orders EXCEPT !.i = @ + 1,
                                   !.out = IF Len(cells) >= 2 /\ ValidYear(order.OrderDate)
                                           THEN Append(@, order) ELSE @]
    /\ UNCHANGED ordersFrame

\* return orders, nil
ReturnOrders ==
    /\ orders.pc = "rows"
    /\ orders.i >= Len(orders.rows)
    /\ orders' = [orders EXCEPT !.pc = "done"]
    /\ UNCHANGED ordersFrame

NextOrders ==
    \/ ParseOrderRow
    \/ ReturnOrders

SpecOrders == InitOrders /\ [][NextOrders]_vars

\* ----------------------------------------------------------------------
\* parsePartiesFromTable (part_002:593-631)
\* ----------------------------------------------------------------------

\* Texts of the cells of a party table.
PartyText ==
    [Petitioner |-> <<"P", "e", "t", "i", "t", "i", "o", "n", "e", "r">>,
     RespondentNo1 |-> <<"R", "E", "S", "P", "O", "N", "D", "E", "N", "T", " ", "N", "o", ".", " ", "1">>,
     Appellant |-> <<"A", "p", "p", "e", "l", "l", "a", "n", "t">>,
     Padded |-> <<" ", "p", "e", "t", "i", "t", "i", "o", "n", "e", "r", " ">>,
     Kumar |-> <<"A", " ", "K", "u", "m", "a", "r">>,
     State |-> <<" ", "S", "t", "a", "t", "e", " ">>,
     Rao |-> <<"B", " ", "R", "a", "o">>,
     Advocate |-> <<"A", "d", "v", " ", "X">>,
     Code |-> <<"D", "/", "1">>,
     Header |-> <<"T", "y", "p", "e">>]

\* The roles of a Party.
Roles == {PartyText.Petitioner, <<"R", "e", "s", "p", "o", "n", "d", "e", "n", "t">>,
          <<"O", "t", "h", "e", "r">>}

\* The rows a party table is made of here, each the texts of its td cells.
PartyRows ==
    { <<PartyText.Petitioner, PartyText.Kumar>>,
      <<PartyText.RespondentNo1, PartyText.State, PartyText.Advocate, PartyText.Code>>,
      <<PartyText.Appellant, PartyText.Rao, PartyText.Advocate>>,
      <<PartyText.Padded, PartyText.Rao>>,
      <<<<>>, PartyText.Kumar>>,
      <<PartyText.Petitioner, <<" ">>>>,
      <<PartyText.Header>> }

\* party := database.Party{} and the fields the loop body sets from the cells
\* of a row of at least two cells.
PartyOf(cells) ==
    LET partyType == TrimSpace(cells[1]) IN
    [Type |-> IF Contains(ToLower(partyType), ToLower(PartyText.Petitioner))
              THEN PartyText.Petitioner
              ELSE IF Contains(ToLower(partyType), <<"r", "e", "s", "p", "o", "n", "d", "e", "n", "t">>)
              THEN <<"R", "e", "s", "p", "o", "n", "d", "e", "n", "t">>
              ELSE partyType,
     Name |-> TrimSpace(cells[2]),
     AdvocateName |-> IF Len(cells) > 2 THEN TrimSpace(cells[3]) ELSE <<>>,
     AdvocateCode |-> IF Len(cells) > 3 THEN TrimSpace(cells[4]) ELSE <<>>]

\* parsePartiesFromTable has read the rows of the table: a header row and up
\* to MaxRows rows.
InitParties ==
    /\ BatchStart(<<>>, 1)
    /\ chain = <<>>
    /\ files = <<>>
    /\ ServiceInit
    /\ parser = NoTable
    /\ dates = NoParse
    /\ orders = NoOrders
    /\ extract = NoExtract
    /\ \E t \in SeqUpTo(PartyRows, MaxRows) :
         parties = [pc |-> "rows", i |-> 1, out |-> <<>>, rows |-> <<<<PartyText.Header>>>> \o t]

partiesFrame == <<batchVars, now, crashed, chain, files, closeVars, remoteVars, cacheVars,
                  apiVars, parser, dates, orders, extract>>

\* One pass of for i := 1; i < len(rows); i++ { cells := ...; if len(cells) >= 2
\* { ...; if party.Name != "" { parties = append(parties, party) } } }
\* (i counts from 0 in the code, rows[i + 1] is its rows[i]).
ParsePartyRow ==
    /\ parties.pc = "rows"
    /\ parties.i < Len(parties.rows)
    /\ LET cells == parties.rows[parties.i + 1] IN
         parties' = [parties EXCEPT !.i = @ + 1,
                                    !.out = IF Len(cells) >= 2 /\ PartyOf(cells).Name /= <<>>
                                            THEN Append(@, PartyOf(cells)) ELSE @]
    /\ UNCHANGED partiesFrame

\* return parties, nil
ReturnParties ==
    /\ parties.pc = "rows"
    /\ parties.i >= Len(parties.rows)
    /\ parties' = [parties EXCEPT !.pc = "done"]
    /\ UNCHANGED partiesFrame

NextParties ==
    \/ ParsePartyRow
    \/ ReturnParties

SpecParties == InitParties /\ [][NextParties]_vars

\* ----------------------------------------------------------------------
\* fetchAdditionalDetails and the end of SearchCase (scraper.go:223-228, 311-338)
\* ----------------------------------------------------------------------

ErrOrdersTable == "orders table not found"

\* SearchCase is about to call s.fetchAdditionalDetails(page, caseInfo) with
\* the record parseResults returned, which has no orders.  The page has an
\* Orders / Judgements link or not (tab), the page behind it an orders table
\* or not (table), and the table a header row and up to MaxRows rows.
InitDetails ==
    /\ \E q \in {CaseQuery("CS", "1234", "2023")} : BatchStartAt(<<q>>, 1, "details", 1)
    /\ chain = <<>>
    /\ files = <<>>
    /\ ServiceInit
    /\ parser = NoTable
    /\ dates = NoParse
    /\ extract = NoExtract
    /\ parties = NoParties
    /\ \E tab \in BOOLEAN, table \in BOOLEAN, t \in SeqUpTo(OrderRows, MaxRows), u \in PageURLs :
         orders = [pc |-> "links", url |-> u, i |-> 1, out |-> <<>>,
                   rows |-> << <<Cell(OrderText.Header, <<>>)>> >> \o t,
                   tab |-> tab, table |-> table, err |-> "nil",
                   attached |-> <<>>, warned |-> FALSE]

\* links := page.MustElements("a"); for _, link := range links { ... }:
\* if ordersTab != nil { ... }; return nil
FindOrdersTab ==
    /\ ~crashed
    /\ orders.pc = "links"
    /\ orders' = [orders EXCEPT !.pc = IF orders.tab THEN "click" ELSE "done"]
    /\ UNCHANGED ordersFrame

\* ordersTab.MustClick(); page.MustWaitNavigation()
OpenOrdersTab ==
    /\ ~crashed
    /\ orders.pc = "click"
    /\ orders' = [orders EXCEPT !.pc = "table"]
    /\ UNCHANGED ordersFrame

\* ParseOrders up to the row loop: the selectors, then any table with "order"
\* and "PDF" or "Download" in it; if ordersTable == nil { return orders,
\* fmt.Errorf("orders table not found") }, which fetchAdditionalDetails returns.
FindOrdersTable ==
    /\ ~crashed
    /\ orders.pc = "table"
    /\ orders' = IF orders.table THEN [orders EXCEPT !.pc = "rows"]
                 ELSE [orders EXCEPT !.pc = "done", !.err = ErrOrdersTable]
    /\ UNCHANGED ordersFrame

\* A Must* call of fetchAdditionalDetails or ParseOrders panics: MustElements
\* of the links, MustClick and MustWaitNavigation of the tab, MustElements and
\* MustText of the tables, rows and cells.
DetailsPanics ==
    /\ ~crashed
    /\ orders.pc \in {"links", "click", "table", "rows"}
    /\ Panic

\* fetchAdditionalDetails has returned: caseInfo.Orders = orders was done if
\* the tab was found and ParseOrders returned no error; an error is logged
\* as a warning; return caseInfo, html, nil.
DetailsReturn(i) ==
    /\ ~crashed
    /\ pc[i] = "details"
    /\ orders.pc = "done"
    /\ orders' = [orders EXCEPT !.pc = "returned",
                                !.attached = IF orders.err = "nil" THEN orders.out ELSE <<>>,
                                !.warned = orders.err /= "nil"]
    /\ Return(i, TRUE, outcome[i].RawHTML, "nil")
    /\ UNCHANGED <<queries, K, next, wg, sem, results, returned, page, navs, tries, shown, mu,
                   sessions, numPages, now, crashed, chain, files, closeVars, remoteVars,
                   cacheVars, apiVars, parser, dates, extract, parties>>

NextDetails ==
    \/ FindOrdersTab
    \/ OpenOrdersTab
    \/ FindOrdersTable
    \/ ~crashed /\ ParseOrderRow
    \/ ~crashed /\ ReturnOrders
    \/ DetailsPanics
    \/ \E i \in Workers : DetailsReturn(i)

SpecDetails == InitDetails /\ [][NextDetails]_vars

\* ----------------------------------------------------------------------
\* ParseCaseDetails and its three tiers (part_002:400-569)
\* ----------------------------------------------------------------------

ErrContainer == "case details container not found"

ErrNoCaseNumber == "failed to extract case number"

\* parseCaseDetailsFromTable: the row loop over all rows.
RECURSIVE ApplyRows(_, _)
ApplyRows(info, rows) ==
    IF rows = <<>> THEN info ELSE ApplyRows(ApplyRow(info, Head(rows)), Tail(rows))

\* One pass of the loop of parseCaseDetailsFromDivs at element i: an element
\* whose trimmed text ends with ":" and that has a successor is a label, the
\* first case its lowercased text contains sets the field from the trimmed
\* text of the next element.
ApplyElement(info, elements, i) ==
    LET text == TrimSpace(elements[i])
        lowerText == ToLower(text)
    IN IF ~(HasSuffix(text, <<":">>) /\ i + 1 <= Len(elements)) THEN info
       ELSE LET value == TrimSpace(elements[i + 1]) IN
            IF Contains(lowerText, <<"c", "a", "s", "e", " ", "n", "o">>)
            THEN [info EXCEPT !.CaseNumber = value]
            ELSE IF Contains(lowerText, Key.CaseType)
            THEN [info EXCEPT !.CaseType = value]
            ELSE IF Contains(lowerText, <<"y", "e", "a", "r">>)
            THEN [info EXCEPT !.FilingYear = value]
            ELSE IF Contains(lowerText, Key.FilingDate)
            THEN [info EXCEPT !.FilingDate = parseDate(value)]
            ELSE IF Contains(lowerText, Key.NextDate)
            THEN [info EXCEPT !.NextHearing = parseDate(value)]
            ELSE IF Contains(lowerText, Key.Status)
            THEN [info EXCEPT !.Status = value]
            ELSE IF Contains(lowerText, Key.Judge)
            THEN [info EXCEPT !.Judge = value]
            ELSE info

\* parseCaseDetailsFromDivs: for i, elem := range elements { ... }
RECURSIVE ApplyElements(_, _, _)
ApplyElements(info, elements, i) ==
    IF i > Len(elements) THEN info
    ELSE ApplyElements(ApplyElement(info, elements, i), elements, i + 1)

\* Character classes of the patterns of parseCaseDetailsFromText.
UpperSet == { Upper[k] : k \in DOMAIN Upper }

DigitSet == { Digits[k] : k \in DOMAIN Digits }

SepSet == {"/", "-"}

SpaceSet == {" ", "\n"}

\* The number of characters of s from position p on that are in class.
RECURSIVE Span(_, _, _)
Span(s, p, class) ==
    IF p <= Len(s) /\ s[p] \in class THEN 1 + Span(s, p + 1, class) ELSE 0

\* s has the literal lit at position p.
At(s, p, lit) == p + Len(lit) - 1 <= Len(s) /\ SubSeq(s, p, p + Len(lit) - 1) = lit

\* The end of a match of [A-Z]+[\/\-]?\d+[\/\-]?\d+ that begins at p, 0 if none.
NumberEnd(s, p) ==
    LET u == Span(s, p, UpperSet)
        a == IF p + u <= Len(s) /\ s[p + u] \in SepSet THEN p + u + 1 ELSE p + u
        d == Span(s, a, DigitSet)
        b == a + d
        e == IF b <= Len(s) /\ s[b] \in SepSet THEN Span(s, b + 1, DigitSet) ELSE 0
    IN IF u = 0 \/ d = 0 THEN 0
       ELSE IF e > 0 THEN b + e
       ELSE IF d >= 2 THEN b - 1
       ELSE 0

\* The capture of Case\s*No[\.\s:]+([A-Z]+[\/\-]?\d+[\/\-]?\d+) matched at p.
CaseNoAt(s, p) ==
    IF ~At(s, p, <<"C", "a", "s", "e">>) THEN <<>>
    ELSE LET n == p + 4 + Span(s, p + 4, SpaceSet) IN
         IF ~At(s, n, <<"N", "o">>) THEN <<>>
         ELSE LET g == Span(s, n + 2, SpaceSet \cup {".", ":"})
                  c == n + 2 + g
              IN IF g = 0 \/ NumberEnd(s, c) = 0 THEN <<>>
                 ELSE SubSeq(s, c, NumberEnd(s, c))

\* The capture of CNR\s*Number[\.\s:]+([A-Z0-9]+) matched at p.
CnrAt(s, p) ==
    IF ~At(s, p, <<"C", "N", "R">>) THEN <<>>
    ELSE LET n == p + 3 + Span(s, p + 3, SpaceSet) IN
         IF ~At(s, n, <<"N", "u", "m", "b", "e", "r">>) THEN <<>>
         ELSE LET g == Span(s, n + 6, SpaceSet \cup {".", ":"})
                  c == n + 6 + g
                  w == Span(s, c, UpperSet \cup DigitSet)
              IN IF g = 0 \/ w = 0 THEN <<>> ELSE SubSeq(s, c, c + w - 1)

\* The capture of ([A-Z]+[\/\-]\d+[\/\-]\d{4}) matched at p.
BareAt(s, p) ==
    LET u == Span(s, p, UpperSet)
        a == p + u + 1
        d == Span(s, a, DigitSet)
        b == a + d + 1
    IN IF /\ u > 0 /\ d > 0
          /\ p + u <= Len(s) /\ s[p + u] \in SepSet
          /\ a + d <= Len(s) /\ s[a + d] \in SepSet
          /\ Span(s, b, DigitSet) >= 4
       THEN SubSeq(s, p, b + 3)
       ELSE <<>>

\* The capture of Year[\.\s:]+(\d{4}) matched at p.
YearAt(s, p) ==
    IF ~At(s, p, <<"Y", "e", "a", "r">>) THEN <<>>
    ELSE LET g == Span(s, p + 4, SpaceSet \cup {".", ":"})
             c == p + 4 + g
         IN IF g = 0 \/ Span(s, c, DigitSet) < 4 THEN <<>> ELSE SubSeq(s, c, c + 3)

\* The match of (\d{1,2}[\-\/]\d{1,2}[\-\/]\d{4}) that begins at p.
DateAt(s, p) ==
    LET d == Span(s, p, DigitSet)
        a == p + d + 1
        m == Span(s, a, DigitSet)
        b == a + m + 1
    IN IF /\ d \in {1, 2} /\ m \in {1, 2}
          /\ p + d <= Len(s) /\ s[p + d] \in SepSet
          /\ a + m <= Len(s) /\ s[a + m] \in SepSet
          /\ Span(s, b, DigitSet) >= 4
       THEN SubSeq(s, p, b + 3)
       ELSE <<>>

\* FindStringSubmatch / FindString: the match at the leftmost position that
\* has one, "" if there is none.  AtP(s, p) is the match beginning at p.
RECURSIVE Leftmost(_, _, _)
Leftmost(AtP(_, _), s, p) ==
    IF p > Len(s) THEN <<>>
    ELSE IF AtP(s, p) /= <<>> THEN AtP(s, p)
    ELSE Leftmost(AtP, s, p + 1)

\* for _, pattern := range caseNumberPatterns { if matches ... { caseInfo.
\* CaseNumber = matches[1]; break } }: the first pattern that matches.
FindCaseNumber(text) ==
    IF Leftmost(CaseNoAt, text, 1) /= <<>> THEN Leftmost(CaseNoAt, text, 1)
    ELSE IF Leftmost(CnrAt, text, 1) /= <<>> THEN Leftmost(CnrAt, text, 1)
    ELSE Leftmost(BareAt, text, 1)

\* strings.Split(text, "\n")
RECURSIVE SplitLines(_)
SplitLines(s) ==
    IF \A k \in DOMAIN s : s[k] /= "\n" THEN <<s>>
    ELSE LET k == CHOOSE x \in DOMAIN s : s[x] = "\n" /\ \A j \in 1..(x - 1) : s[j] /= "\n"
         IN <<SubSeq(s, 1, k - 1)>> \o SplitLines(Rest(s, k))

\* One pass of the line loop of parseCaseDetailsFromText.
ApplyLine(info, line) ==
    LET lowerLine == ToLower(line)
        date == Leftmost(DateAt, line, 1)
        filed == IF /\ \/ Contains(lowerLine, Key.FilingDate)
                          \/ Contains(lowerLine, <<"i", "n", "s", "t", "i", "t", "u", "t", "i", "o", "n">>)
                       /\ date /= <<>>
                 THEN [info EXCEPT !.FilingDate = parseDate(date)] ELSE info
    IN IF /\ Contains(lowerLine, <<"n", "e", "x", "t">>)
          /\ Contains(lowerLine, <<"d", "a", "t", "e">>)
          /\ date /= <<>>
       THEN [filed EXCEPT !.NextHearing = parseDate(date)] ELSE filed

RECURSIVE ApplyLines(_, _)
ApplyLines(info, lines) ==
    IF lines = <<>> THEN info ELSE ApplyLines(ApplyLine(info, Head(lines)), Tail(lines))

\* regexp `[\/\-]` Split(caseNumber, -1)[0]: the text before the first separator.
FirstPart(s) == SubSeq(s, 1, Span(s, 1, { s[k] : k \in DOMAIN s } \ SepSet))

\* parseCaseDetailsFromText(text, caseInfo)
parseCaseDetailsFromText(text, info) ==
    LET n == FindCaseNumber(text)
        i1 == IF n /= <<>> THEN [info EXCEPT !.CaseNumber = n] ELSE info
        i2 == IF i1.CaseType = <<>> /\ i1.CaseNumber /= <<>>
              THEN [i1 EXCEPT !.CaseType = FirstPart(i1.CaseNumber)] ELSE i1
        y == Leftmost(YearAt, text, 1)
        i3 == IF y /= <<>> THEN [i2 EXCEPT !.FilingYear = y] ELSE i2
    IN ApplyLines(i3, SplitLines(text))

\* Texts of the details container that the patterns read.
ContainerText ==
    [None |-> <<>>,
     CaseNo |-> <<"C", "a", "s", "e", " ", "N", "o", ":", " ", "C", "S", "/", "1", "2", "3", "4", "/", "2", "0", "2", "3">>,
     Cnr |-> <<"C", "N", "R", " ", "N", "u", "m", "b", "e", "r", ":", " ", "D", "L", "C", "T", "0", "1">>,
     Bare |-> <<"R", "e", "f", " ", "c", "s", " ", "A", "B", "-", "7", "7", "-", "2", "0", "2", "1", "\n", "Y", "e", "a", "r", ":", " ", "2", "0", "2", "1">>,
     Dated |-> <<"F", "i", "l", "i", "n", "g", " ", "D", "a", "t", "e", " ", "5", "/", "3", "/", "2", "0", "2", "3", "\n", "N", "e", "x", "t", " ", "D", "a", "t", "e", ":", " ", "2", "0", "-", "0", "2", "-", "2", "0", "2", "4">>,
     NoCase |-> <<"c", "a", "s", "e", " ", "n", "o", ":", " ", "c", "s", "/", "1", "2">>]

\* Texts of div and span elements of the details container.
ElementText ==
    [CaseNoLabel |-> <<"C", "a", "s", "e", " ", "N", "o", ":">>,
     CaseNoValue |-> <<" ", "C", "S", "/", "1", "2", "3", "4", "/", "2", "0", "2", "3", " ">>,
     StatusLabel |-> <<"S", "t", "a", "t", "u", "s", ":">>,
     Pending |-> <<"P", "e", "n", "d", "i", "n", "g">>,
     YearLabel |-> <<"Y", "e", "a", "r", ":">>,
     Year |-> <<"2", "0", "2", "3">>,
     Plain |-> <<"C", "a", "s", "e", " ", "N", "o">>]

\* What a details page may hold: whether the container exists, whether it
\* has a table and the table's rows, its div and span elements, and its text.
DetailPages ==
    [container : BOOLEAN,
     table : {[found |-> FALSE, rows |-> <<>>],
              [found |-> TRUE, rows |-> SampleTable],
              [found |-> TRUE, rows |-> << <<Label.FilingDate, Value.FilingDate>> >>],
              [found |-> TRUE, rows |-> << <<Label.NextHearingDate, Value.NextHearing>>,
                                           <<Label.CaseStatus, Value.Pending>> >>]},
     elements : { <<>>,
                  <<ElementText.CaseNoLabel, ElementText.CaseNoValue>>,
                  <<ElementText.StatusLabel, ElementText.Pending, ElementText.CaseNoLabel>>,
                  <<ElementText.Plain, ElementText.YearLabel, ElementText.Year>> },
     text : { ContainerText[f] : f \in DOMAIN ContainerText }]

\* ParseCaseDetails(page) has been called: caseInfo := &database.CaseInfo{}.
InitExtract ==
    /\ BatchStart(<<>>, 1)
    /\ chain = <<>>
    /\ files = <<>>
    /\ ServiceInit
    /\ parser = NoTable
    /\ dates = NoParse
    /\ orders = NoOrders
    /\ parties = NoParties
    /\ \E p \in DetailPages :
         extract = [pc |-> "container", page |-> p, info |-> EmptyInfo, tiers |-> <<>>,
                    ret |-> "pending", out |-> <<>>]

extractFrame == <<batchVars, now, chain, files, closeVars, remoteVars, cacheVars, apiVars,
                  parser, dates, orders, parties>>

\* detailsContainer, err := page.Element(...); if err != nil { return nil, ... }
FindContainer ==
    /\ ~crashed
    /\ extract.pc = "container"
    /\ extract' = IF extract.page.container THEN [extract EXCEPT !.pc = "table"]
                  ELSE [extract EXCEPT !.pc = "done", !.ret = ErrContainer]
    /\ UNCHANGED <<extractFrame, crashed>>

\* A tier that is handed a record of its own.
FreshRecord(info) == EmptyInfo

\* The record a tier is handed: caseInfo, the one record of the call, with
\* whatever the tiers before have put into it.
SharedRecord(info) == info

\* A tier that runs whatever the tiers before it found.
AnyCaseNumber(info) == TRUE

\* if caseInfo.CaseNumber == "": the test in front of tiers 2 and 3.
NoCaseNumber(info) == info.CaseNumber = <<>>

\* if table, err := detailsContainer.Element("table"); err == nil {
\* p.parseCaseDetailsFromTable(table, caseInfo) }; a Must* call in it may panic.
TableTier ==
    /\ ~crashed
    /\ extract.pc = "table"
    /\ IF ~extract.page.table.found
       THEN extract' = [extract EXCEPT !.pc = "divs"] /\ UNCHANGED crashed
       ELSE \/ /\ extract' = [extract EXCEPT !.pc = "divs", !.tiers = Append(@, "table"),
                                             !.info = ApplyRows(SharedRecord(@), extract.page.table.rows)]
               /\ UNCHANGED crashed
            \/ crashed' = TRUE /\ UNCHANGED extract
    /\ UNCHANGED extractFrame

\* if caseInfo.CaseNumber == "" { p.parseCaseDetailsFromDivs(detailsContainer, caseInfo) }
DivTier ==
    /\ ~crashed
    /\ extract.pc = "divs"
    /\ IF NoCaseNumber(extract.info)
       THEN \/ /\ extract' = [extract EXCEPT !.pc = "text", !.tiers = Append(@, "divs"),
                                             !.info = ApplyElements(SharedRecord(@), extract.page.elements, 1)]
               /\ UNCHANGED crashed
            \/ crashed' = TRUE /\ UNCHANGED extract
       ELSE extract' = [extract EXCEPT !.pc = "text"] /\ UNCHANGED crashed
    /\ UNCHANGED extractFrame

\* if caseInfo.CaseNumber == "" { bodyText, _ := detailsContainer.Text();
\* p.parseCaseDetailsFromText(bodyText, caseInfo) }: a failing Text() gives "".
TextTier ==
    /\ ~crashed
    /\ extract.pc = "text"
    /\ IF NoCaseNumber(extract.info)
       THEN \E t \in {extract.page.text, <<>>} :
              extract' = [extract EXCEPT !.pc = "validate", !.tiers = Append(@, "text"),
                                         !.info = parseCaseDetailsFromText(t, SharedRecord(@))]
       ELSE extract' = [extract EXCEPT !.pc = "validate"]
    /\ UNCHANGED <<extractFrame, crashed>>

\* if caseInfo.CaseNumber == "" { return nil, fmt.Errorf("failed to extract
\* case number") }
Validate ==
    /\ ~crashed
    /\ extract.pc = "validate"
    /\ extract' = IF extract.info.CaseNumber = <<>>
                  THEN [extract EXCEPT !.pc = "done", !.ret = ErrNoCaseNumber]
                  ELSE [extract EXCEPT !.pc = "parties"]
    /\ UNCHANGED <<extractFrame, crashed>>

\* parties, err := p.parseParties(page) (an error is a warning);
\* p.parseCaseHistory(page, caseInfo), which may set Status to "Disposed" or
\* "Pending"; return caseInfo, nil: out holds the record returned, and is
\* empty for a nil record.  The Must* calls in them may panic.
PartiesAndHistory ==
    /\ ~crashed
    /\ extract.pc = "parties"
    /\ \/ /\ \E st \in {extract.info.Status, Value.Pending, TrimSpace(Value.Disposed)} :
               extract' = [extract EXCEPT !.pc = "done", !.ret = "nil", !.info.Status = st,
                                          !.out = <<[extract.info EXCEPT !.Status = st]>>]
          /\ UNCHANGED crashed
       \/ crashed' = TRUE /\ UNCHANGED extract
    /\ UNCHANGED extractFrame

NextExtract ==
    \/ FindContainer
    \/ TableTier
    \/ DivTier
    \/ TextTier
    \/ Validate
    \/ PartiesAndHistory

SpecExtract == InitExtract /\ [][NextExtract]_vars

\* ======================================================================
\* Properties
\* ======================================================================

\* The result slot a query's SearchCase outcome makes.
OwnResult(i) ==
    CaseResult(queries[i], outcome[i].CaseInfo, outcome[i].RawHTML, outcome[i].Error)

Failed(i) == outcome[i].Error \notin {"pending", "nil"}

Succeeded(i) == outcome[i].Error = "nil"

\* C1: when SearchCaseConcurrent returns, it returns exactly one result per
\* input query, and the result at index i carries queries[i] and the outcome
\* of the SearchCase call made for queries[i], whatever order the workers
\* finished in and whichever of them failed.
C1_ResultsInInputOrder ==
    returned /= NotReturned =>
        /\ Len(returned.results) = Len(queries)
        /\ \A i \in Workers :
             /\ outcome[i].Error /= "pending"
             /\ returned.results[i].Query = queries[i]
             /\ returned.results[i] = OwnResult(i)

\* A batch of two different queries has returned; the first failed and the
\* second succeeded.
C1_Witness ==
    /\ returned /= NotReturned
    /\ N = 2
    /\ queries[1] /= queries[2]
    /\ Failed(1)
    /\ Succeeded(2)

\* The positions of a worker between its send on the semaphore channel and
\* its deferred receive.
Holding == {"lock", "getpage", "ret"} \cup InFlight

Holders == { i \in Workers : pc[i] \in Holding }

\* C2: at no time do more than K = MaxConcurrentScrapes queries sit between
\* acquiring and releasing a semaphore slot, however many queries there are.
C2_AtMostKHolders ==
    /\ Cardinality(Holders) <= K
    /\ Cardinality(Holders) = sem

\* More queries than slots: every slot is taken and a query is waiting for one.
C2_Witness ==
    /\ K >= 1
    /\ N > K
    /\ Cardinality(Holders) = K
    /\ \E i \in Workers : pc[i] = "spawned"

\* Worker j is left exactly as it was by a step.
Untouched(j) ==
    /\ pc'[j] = pc[j]
    /\ page'[j] = page[j]
    /\ navs'[j] = navs[j]
    /\ expired'[j] = expired[j]
    /\ outcome'[j] = outcome[j]
    /\ results'[j] = results[j]

\* C3: the step in which a query ends in an error leaves every sibling query,
\* its context and its result slot untouched and does not end the batch; and
\* when the batch returns it returns no batch-level error, every query has run
\* to its own completion and every slot holds that query's own outcome.
C3_FailureIsolated ==
    /\ [][\A i \in Workers :
            (~Failed(i) /\ Failed(i)') =>
                /\ \A j \in Workers \ {i} : Untouched(j)
                /\ returned' = returned
                /\ crashed' = crashed]_vars
    /\ [](returned /= NotReturned =>
            /\ returned.err = "nil"
            /\ \A i \in Workers : outcome[i].Error /= "pending" /\ results[i] = OwnResult(i))

\* The batch has returned; one query failed at navigation before its sibling
\* had got as far, and the sibling went on to succeed.
C3_Witness ==
    /\ returned /= NotReturned
    /\ N = 2
    /\ outcome[1].Error = ErrNavigate
    /\ Succeeded(2)
    /\ returned.results[2].CaseInfo

\* C4: a query with an empty caseType, caseNumber or filingYear fails before
\* any page is acquired for it and before it navigates.
C4_Original ==
    \A i \in Workers : ~Valid(queries[i]) => page[i] = 0 /\ navs[i] = 0

\* C5: no two queries are handed the same page.
C5_Original ==
    \A i, j \in Workers : (i /= j /\ page[i] /= 0) => page[i] /= page[j]

\* The preconditions of C6: a CAPTCHA was found and its image captured, no OCR
\* credential is set, the session is headless, no solution file was written.
C6_Case ==
    /\ chain.captured
    /\ ~chain.twoKey
    /\ ~chain.antiKey
    /\ chain.headless
    /\ ~chain.everWritten

C7_Original ==
    [][\A i \in Workers :
          (expired[i] /\ pc[i] \in InFlight /\ pc'[i] /= pc[i]) =>
              (pc'[i] = "ret" /\ Failed(i)')]_vars

\* C8: no failure of a query terminates the process.
C8_Original == ~crashed

\* C9: every written result carries either a record and no error, or an
\* error and no record; and a result with an error carries the raw page.
C9_Original ==
    \A i \in Workers :
        results[i] /= ZeroResult =>
            /\ results[i].CaseInfo <=> (results[i].Error = "nil")
            /\ results[i].Error /= "nil" => results[i].RawHTML /= ""

\* C10: every poll loop of the chain is bounded (30 polls per OCR service, 60
\* of the input field, none of the solution file at or after the 60 s
\* deadline), and every invocation of the chain returns: a solution entered
\* or an error.
C10_Original ==
    /\ [](/\ chain.pc \in {"two_poll", "anti_poll"} => chain.i <= OcrPolls
          /\ chain.pc = "manual_poll" => chain.i <= ManualPolls
          /\ chain.lastRead < chain.deadline \/ chain.deadline = -1)
    /\ <>(chain.pc = "done")

\* Every text of a page: its error elements and its body.
PageTexts(p) == {p.body} \cup {p.elems[k] : k \in DOMAIN p.elems}

\* The page shows the phrase, in any letter case.
Shows(p, phrase) == \E t \in PageTexts(p) : Contains(ToLower(t), phrase)

PhraseWrongCaptcha == <<"w", "r", "o", "n", "g", " ", "c", "a", "p", "t", "c", "h", "a">>

PhraseNoRecord == <<"n", "o", " ", "r", "e", "c", "o", "r", "d", " ", "f", "o", "u", "n", "d">>

PhraseInvalidCase == <<"i", "n", "v", "a", "l", "i", "d", " ", "c", "a", "s", "e">>

\* C11: a query whose entered CAPTCHA the portal rejected does not go on to
\* extraction or return before it has run the CAPTCHA chain again.
C11_Original ==
    \A i \in Workers :
        (Shows(shown[i], PhraseWrongCaptcha) /\ pc[i] \in {"parse", "details", "ret"})
            => tries[i] >= 2

\* C12: a result page showing a known error phrase never reaches the
\* extractor, and the query returns the search error for it.
C12_Original ==
    \A i \in Workers :
        (\E ph \in {PhraseWrongCaptcha, PhraseNoRecord, PhraseInvalidCase} : Shows(shown[i], ph))
            => /\ pc[i] \notin {"parse", "details"}
               /\ pc[i] = "ret" => outcome[i].Error = ErrSearch

\* C13: a query whose navigation failed has navigated once, has run no
\* CAPTCHA step and no submit, and returns the raw page with its error.
C13_Original ==
    \A i \in Workers :
        outcome[i].Error = ErrNavigate =>
            /\ navs[i] = 1
            /\ tries[i] = 0
            /\ shown[i] = NoPage
            /\ outcome[i].RawHTML /= ""

\* The position of each form field's lookup and the error naming the field.
FieldErrors ==
    { <<"casetype", ErrCaseType>>, <<"casenumber", ErrCaseNumber>>, <<"year", ErrYear>> }

C15_Original ==
    /\ ~crashed
    /\ (closer.calls >= 1 /\ closer.pc = "idle") =>
          /\ closer.ret = "nil"
          /\ ~browserUp
          /\ \A sid \in DOMAIN sessions : sessions[sid] \in closed

\* C16: no two queries use the same challenge id, and the solution a query
\* consumes is the solution of its own challenge image.
C16_Original ==
    \A i \in Workers :
        /\ \A j \in Workers \ {i} :
             remote[i].pc /= "idle" => remote[i].captchaID /= remote[j].captchaID
        /\ remote[i].pc = "solved" => remote[i].text = Solve(ImageOf(i))

\* C17: the entry a Set evicts is one that was used (read or written) no
\* later than every other entry of the cache.
C17_Original ==
    [][\A c \in Callers :
          (callers[c].pc = "body" /\ callers[c].op = "Set" /\ callers'[c].pc = "idle") =>
              \A k \in DOMAIN lru.items \ DOMAIN lru'.items :
                  \A j \in DOMAIN lru.items : lru.lastUse[k] <= lru.lastUse[j]]_vars

\* C18: a caller that is about to write the item map or the stats record
\* holds the exclusive lock.
C18_Original ==
    \A c \in Callers : callers[c].pc = "body" => lru.writer = c

\* C19: a request with type, number or year missing or empty is answered 400,
\* and from its arrival to its response the cache is neither read nor written
\* and the scraper is not called.
C19_BadRequest ==
    /\ [](\/ api.pc = "idle"
          \/ ~(api.req.type = "" \/ api.req.number = "" \/ api.req.year = "")
          \/ /\ api.pc \in {"validate", "done"}
             /\ ~api.usedCache
             /\ ~api.usedScraper
             /\ api.pc = "done" => api.status = 400)
    /\ [][(api.pc /= "idle" /\ (api.req.type = "" \/ api.req.number = "" \/ api.req.year = ""))
            => lru' = lru]_vars

\* A request with only the case number missing has been answered 400 while
\* the cache held an entry from an earlier request.
C19_Witness ==
    /\ api.pc = "done"
    /\ api.status = 400
    /\ api.req.type = "CS"
    /\ api.req.number = ""
    /\ api.req.year = "2023"
    /\ DOMAIN lru.items /= {}

\* C20: the row just read has set its field from its value cell (a label
\* containing "case number" the case number, "filing date" the filing date,
\* "next hearing" or "next date" the next hearing, "status" the status; text
\* trimmed, dates parsed day first, an impossible date giving the zero date),
\* and the sample table yields CS/1234/2023, 2023-03-15, 2024-02-20, Pending.
C20_TableRows ==
    /\ parser.i > 1 =>
          LET row == parser.rows[parser.i - 1]
              info == parser.info
          IN /\ row = <<Label.CaseNumber, Value.CaseNumber>> => info.CaseNumber = <<"C", "S", "/", "1", "2", "3", "4", "/", "2", "0", "2", "3">>
             /\ row = <<Label.FilingDate, Value.FilingDate>> => info.FilingDate = [y |-> 2023, m |-> 3, d |-> 15]
             /\ row = <<Label.FilingDate, Value.NoDate>> => info.FilingDate = ZeroDate
             /\ row = <<Label.NextHearingDate, Value.NextHearing>> =>
                    info.NextHearing = [y |-> 2024, m |-> 2, d |-> 20]
             /\ row = <<Label.NextHearingDate, Value.NamedDate>> =>
                    info.NextHearing = [y |-> 2024, m |-> 3, d |-> 4]
             /\ row = <<Label.NextDate, Value.SlashDate>> => info.NextHearing = [y |-> 2024, m |-> 4, d |-> 5]
             /\ row = <<Label.CaseStatus, Value.Pending>> => info.Status = <<"P", "e", "n", "d", "i", "n", "g">>
             /\ row = <<Label.CaseStatus, Value.Disposed>> => info.Status = <<"D", "i", "s", "p", "o", "s", "e", "d">>
    /\ (parser.rows = SampleTable /\ parser.i > Len(parser.rows)) =>
          /\ parser.info.CaseNumber = <<"C", "S", "/", "1", "2", "3", "4", "/", "2", "0", "2", "3">>
          /\ parser.info.FilingDate = [y |-> 2023, m |-> 3, d |-> 15]
          /\ parser.info.NextHearing = [y |-> 2024, m |-> 2, d |-> 20]
          /\ parser.info.Status = <<"P", "e", "n", "d", "i", "n", "g">>

\* The four rows of the sample table have been read.
C20_Witness ==
    /\ parser.rows = SampleTable
    /\ parser.i = 5
    /\ parser.info.FilingDate = [y |-> 2023, m |-> 3, d |-> 15]
    /\ parser.info.Status = <<"P", "e", "n", "d", "i", "n", "g">>

\* The spellings of 15 March 2023 the claim lists, and one behind a weekday.
SameDayInputs ==
    {DateText.Dash, DateText.Slash, DateText.ShortMonth, DateText.LongMonth, DateText.Iso,
     DateText.Weekday}

\* The text the returning loop of a finished parseDate call read.
TextTried == IF dates.pass = 1 THEN dates.cleaned ELSE StripDayNames(dates.cleaned)

\* C21: parseDate returns 15 March 2023 for each supported spelling of that
\* day, also behind a weekday name; the layout that answers is the first of
\* the list that reads the text, the cleaned input being tried on the whole
\* list before the text without weekday names is; and "not-a-date" comes back
\* as the zero time with an error, the process still running.
C21_SameDate ==
    /\ ~crashed
    /\ dates.pc = "done" =>
         /\ dates.input \in SameDayInputs =>
              dates.err = "nil" /\ dates.date = [y |-> 2023, m |-> 3, d |-> 15]
         /\ dates.input = DateText.NotADate =>
              dates.err = ErrDate /\ dates.date = ZeroDate
         /\ dates.err = "nil" =>
              /\ dates.date = TimeParse(Layouts[dates.k], TextTried)
              /\ \A j \in 1..(dates.k - 1) : TimeParse(Layouts[j], TextTried) = NoDate
              /\ dates.pass = 2 =>
                   \A j \in DOMAIN Layouts : TimeParse(Layouts[j], dates.cleaned) = NoDate
         /\ dates.err = ErrDate =>
              \A j \in DOMAIN Layouts :
                  /\ TimeParse(Layouts[j], dates.cleaned) = NoDate
                  /\ TimeParse(Layouts[j], StripDayNames(dates.cleaned)) = NoDate
         /\ dates.date = parseDate(dates.input)

\* C21 witness: a date behind a weekday name was read by the second loop.
C21_Witness ==
    /\ dates.pc = "done"
    /\ dates.input = DateText.Weekday
    /\ dates.pass = 2
    /\ dates.date = [y |-> 2023, m |-> 3, d |-> 15]

\* The data rows of the orders table: the rows below the header that have a
\* date cell and a description cell.
DataRows == SelectSeq(Tail(orders.rows), LAMBDA r : Len(r) >= 2)

\* The hrefs of a row's links.
Hrefs(cells) == UNION { { cells[c].links[l] : l \in DOMAIN cells[c].links } : c \in DOMAIN cells }

\* Those whose target contains "pdf".
PdfHrefs(cells) == { h \in Hrefs(cells) : Contains(ToLower(h), <<"p", "d", "f">>) }

IsAbsolute(u) ==
    HasPrefix(u, <<"h", "t", "t", "p", ":", "/", "/">>)
    \/ HasPrefix(u, <<"h", "t", "t", "p", "s", ":", "/", "/">>)

\* C22: ParseOrders returns, in table order, the data rows whose date cell
\* parsed to a year after 1900 and no other; a returned row with a link to a
\* pdf carries an absolute pdfLink, which is a link of the row as it stands
\* when that link is absolute and else that link behind the page's origin.
C22_Orders ==
    orders.pc = "done" =>
        LET kept == SelectSeq(DataRows,
                              LAMBDA r : parseDate(TrimSpace(r[1].text)).y > 1900)
        IN /\ Len(orders.out) = Len(kept)
           /\ \A k \in DOMAIN kept :
                /\ orders.out[k].Description = TrimSpace(kept[k][2].text)
                /\ orders.out[k].OrderDate = parseDate(TrimSpace(kept[k][1].text))
                /\ PdfHrefs(kept[k]) /= {} =>
                     /\ IsAbsolute(orders.out[k].PDFLink)
                     /\ \E h \in Hrefs(kept[k]) :
                          IF IsAbsolute(h) THEN orders.out[k].PDFLink = h
                          ELSE /\ HasPrefix(orders.out[k].PDFLink, OrderText.Origin \o <<"/">>)
                               /\ HasSuffix(orders.out[k].PDFLink, h)

\* C22 witness: a table with an order of 1900 and an order of 2023 with a
\* relative pdf link was parsed; the second alone came back, its link resolved.
C22_Witness ==
    /\ orders.pc = "done"
    /\ Len(orders.rows) = 3
    /\ orders.rows[2][1].text = OrderText.Year1900
    /\ Len(orders.out) = 1
    /\ orders.out[1].PDFLink = OrderText.Origin \o OrderText.RootPdf

\* The protocol steps of SearchCase in the order of the claim.
StepOrder ==
    <<"nav", "load", "casetype", "casenumber", "year", "captcha", "submit", "check",
      "parse", "details">>

Position(p) == CHOOSE k \in DOMAIN StepOrder : StepOrder[k] = p

\* C23: a query goes through navigate, wait-for-load, case type, case number,
\* filing year, CAPTCHA, submit, error detection, extraction, orders in this
\* order, one step ending before the next begins: it enters the first step
\* from page acquisition, leaves a step only for the next one or by returning,
\* navigates, resolves the CAPTCHA and submits only at these steps, and after
\* it has returned (with an error or a record) nothing of it changes.
C23_StepsInOrder ==
    [][\A i \in Workers :
         /\ (pc[i] \in InFlight /\ pc'[i] /= pc[i]) =>
              \/ pc'[i] = "ret"
              \/ pc'[i] \in InFlight /\ Position(pc'[i]) = Position(pc[i]) + 1
         /\ (pc[i] \notin InFlight /\ pc'[i] \in InFlight) =>
              pc[i] = "getpage" /\ pc'[i] = "nav"
         /\ navs'[i] /= navs[i] => pc[i] = "nav"
         /\ tries'[i] /= tries[i] => pc[i] = "captcha"
         /\ shown'[i] /= shown[i] => pc[i] = "submit"
         /\ pc[i] = "ret" =>
              /\ pc'[i] = "ret"
              /\ outcome'[i] = outcome[i]
              /\ navs'[i] = navs[i] /\ tries'[i] = tries[i] /\ shown'[i] = shown[i]
    ]_vars

\* C23 witness: a query has gone through every step and returned its record.
C23_Witness ==
    \E i \in Workers :
        /\ pc[i] = "ret"
        /\ outcome[i].Error = "nil"
        /\ navs[i] = 1 /\ tries[i] = 1 /\ shown[i] /= NoPage

Rank(step) ==
    CASE step = "two" -> 1 [] step = "anti" -> 2 [] step = "manual" -> 3 [] step = "remote" -> 4

\* C25: a solver step is started only while no text has been obtained and only
\* after the steps before it in the order 2Captcha, Anti-Captcha, interactive
\* input, remote handoff (so none is started twice); a service is started
\* only when its credential is configured; a text once obtained is never
\* replaced, and it is what the chain types into the form.
C25_FixedOrder ==
    [][/\ chain.captchaText /= <<>> => chain'.captchaText = chain.captchaText
       /\ chain'.log /= chain.log =>
            /\ chain.captchaText = <<>>
            /\ \E step \in {"two", "anti", "manual", "remote"} :
                 /\ chain'.log = Append(chain.log, step)
                 /\ \A k \in DOMAIN chain.log : Rank(chain.log[k]) < Rank(step)
                 /\ step = "two" => chain.twoKey
                 /\ step = "anti" => chain.antiKey
       /\ chain'.entered /= chain.entered =>
            chain'.entered = chain.captchaText /\ chain.captchaText /= <<>>
    ]_vars

\* C25 witness: 2Captcha and Anti-Captcha both ran without a text, the remote
\* handoff gave one, and the chain typed it.
C25_Witness ==
    /\ chain.pc = "done"
    /\ chain.log = <<"two", "anti", "remote">>
    /\ chain.entered /= <<>>

\* C26 (as stated): when the chain has returned after a remote handoff,
\* whether a solution was consumed or the wait timed out, neither the image
\* file nor the solution file of the challenge is left.
C26_Original ==
    (chain.pc = "done" /\ chain.captchaID /= NoID) =>
        /\ ImageFile(chain.captchaID) \notin DOMAIN files
        /\ SolutionFile(chain.captchaID) \notin DOMAIN files

\* C27: a chain of a headless session never starts the interactive step: it
\* shows no alert, never polls the input field of the page, and no operator
\* input is read.
C27_HeadlessSkipsManual ==
    chain.headless =>
        /\ chain.pc \notin {"alert", "manual_poll"}
        /\ \A k \in DOMAIN chain.log : chain.log[k] /= "manual"
        /\ chain.inputValue = <<>>

\* C27 witness: a headless chain whose services gave no text has gone past
\* the interactive step to the remote handoff.
C27_Witness ==
    /\ chain.headless
    /\ chain.captchaText = <<>>
    /\ chain.log = <<"two", "anti", "remote">>

\* The form page had no CAPTCHA element and handleCaptcha has returned.
NoCaptcha == chain.pc = "done" /\ ~chain.codeShown /\ ~chain.detected

\* C28: when the form page has no CAPTCHA element, handleCaptcha returns nil
\* at once: no solver step was started, no file was written, nothing was
\* typed into a CAPTCHA field, no time has passed, SearchCase does not return
\* the CAPTCHA error, and its next step is the submit.
C28_PassThrough ==
    /\ [](NoCaptcha =>
            /\ chain.ret = "nil"
            /\ chain.log = <<>>
            /\ files = <<>>
            /\ chain.entered = <<>> /\ ~chain.codeTyped
            /\ now = 0
            /\ \A i \in Workers : outcome[i].Error /= ErrCaptcha)
    /\ [][\A i \in Workers :
            (NoCaptcha /\ pc[i] = "captcha" /\ pc'[i] /= "captcha") => pc'[i] = "submit"]_vars

\* C28 witness: the query of a page without CAPTCHA element is at the submit.
C28_Witness ==
    /\ NoCaptcha
    /\ \E i \in Workers : pc[i] = "submit" /\ tries[i] = 1

\* The three tiers in the order the extractor runs them.
TierOrder == <<"table", "divs", "text">>

TierRank(t) == CHOOSE k \in DOMAIN TierOrder : TierOrder[k] = t

\* C29: the tiers run in the order table, div/span, text; a tier is run only
\* while the case number is still empty, so no tier runs after one that found
\* it; a call that ends with the case number empty has run the div/span and
\* the text tier (and the table tier if there is a table), fails with
\* "failed to extract case number" and returns no record, and a record is
\* returned only with a case number in it.
C29_Tiers ==
    /\ [](/\ \A j, k \in DOMAIN extract.tiers :
               j < k => TierRank(extract.tiers[j]) < TierRank(extract.tiers[k])
          /\ extract.pc \in {"validate", "parties", "done"} /\ extract.page.container
                /\ extract.info.CaseNumber = <<>>
               => /\ extract.tiers = IF extract.page.table.found THEN TierOrder
                                     ELSE Tail(TierOrder)
                  /\ extract.pc = "done" => extract.ret = ErrNoCaseNumber /\ extract.out = <<>>
                  /\ extract.pc /= "parties"
          /\ extract.out /= <<>>
               => extract.ret = "nil" /\ extract.out[1].CaseNumber /= <<>>)
    /\ [][extract'.tiers /= extract.tiers
            => extract.info.CaseNumber = <<>>]_vars

\* C29 witness: a call has returned a record after the table tier found no
\* case number, the div/span tier found one, and the text tier was not run.
C29_Witness ==
    /\ extract.pc = "done"
    /\ extract.ret = "nil"
    /\ extract.tiers = <<"table", "divs">>
    /\ extract.out /= <<>>

\* C30 (as stated): a search whose page has no Orders / Judgements tab, or
\* whose re-extraction of the orders fails, returns the record with an empty
\* order list and no error, the failure being logged as a warning; a failure
\* while the tab is opened or the orders are read does not end the process.
C30_Original ==
    /\ \A i \in Workers :
         (pc[i] = "ret" /\ (~orders.tab \/ orders.err /= "nil")) =>
             /\ outcome[i].CaseInfo
             /\ outcome[i].Error = "nil"
             /\ orders.attached = <<>>
             /\ orders.err /= "nil" => orders.warned
    /\ crashed => orders.pc \notin {"click", "table", "rows"}

\* The part of C30 the code keeps: every return of SearchCase after
\* fetchAdditionalDetails carries the record and no error, with no orders
\* unless the tab was found and ParseOrders returned none.
C30_ReturnedPart ==
    \A i \in Workers :
        pc[i] = "ret" =>
            /\ outcome[i].CaseInfo /\ outcome[i].Error = "nil"
            /\ (~orders.tab \/ orders.err /= "nil") => orders.attached = <<>>
            /\ orders.warned <=> orders.err /= "nil"

\* The hrefs of a row's links in document order: cells left to right, the
\* links of a cell in their order.
RECURSIVE LinksInOrder(_)
LinksInOrder(cells) ==
    IF cells = <<>> THEN <<>> ELSE Head(cells).links \o LinksInOrder(Tail(cells))

\* The first of them that contains "pdf", "download" or "order", <<>> if none.
FirstOrderLink(cells) ==
    LET m == SelectSeq(LinksInOrder(cells), IsOrderLink)
    IN IF m = <<>> THEN <<>> ELSE Head(m)

\* C31 (as stated): the pdfLink of every returned order is the resolved target
\* of the first hyperlink of its row, cells left to right and links in
\* document order, that contains "pdf", "download" or "order" in any case; a
\* later matching hyperlink of the row does not replace it.
C31_Original ==
    orders.pc = "done" =>
        LET kept == SelectSeq(DataRows,
                              LAMBDA r : ValidYear(parseDate(TrimSpace(r[1].text))))
        IN \A k \in DOMAIN orders.out :
             k \in DOMAIN kept =>
                 orders.out[k].PDFLink =
                     IF FirstOrderLink(kept[k]) = <<>> THEN <<>>
                     ELSE makeAbsoluteURL(orders.url, FirstOrderLink(kept[k]))

\* The part of C31 the code keeps: the pdfLink is the resolved target of the
\* first matching hyperlink of the last cell of the row that has one.
C31_LastCellFirstLink ==
    orders.pc = "done" =>
        LET kept == SelectSeq(DataRows,
                              LAMBDA r : ValidYear(parseDate(TrimSpace(r[1].text))))
        IN \A k \in DOMAIN orders.out :
             k \in DOMAIN kept =>
                 LET with == { c \in DOMAIN kept[k] : FirstOrderLink(<<kept[k][c]>>) /= <<>> }
                 IN orders.out[k].PDFLink =
                        IF with = {} THEN <<>>
                        ELSE LET c == CHOOSE x \in with : \A y \in with : y <= x
                             IN makeAbsoluteURL(orders.url, FirstOrderLink(<<kept[k][c]>>))

\* The workers inside getOrCreatePage.
InPageCreation == { i \in Workers : pc[i] = "getpage" }

\* C32: at most one goroutine is inside getOrCreatePage or Close and it holds
\* the mutex; the session map changes only in a step of the holder; a worker
\* that uses its page (navigation and after) or has returned does not hold
\* the mutex.
C32_MapUnderMutex ==
    /\ [](/\ Cardinality(InPageCreation) + (IF closer.pc = "loop" THEN 1 ELSE 0) <= 1
          /\ \A i \in InPageCreation : mu = i
          /\ closer.pc = "loop" => mu = -1
          /\ \A i \in Workers : pc[i] \in InFlight \cup {"ret"} => mu /= i)
    /\ [][sessions' /= sessions => mu \in InPageCreation]_vars

\* C32 witness: one worker navigates on the page it stored in the map while
\* Close holds the mutex and another worker waits for it at s.mu.Lock().
C32_Witness ==
    \E i, j \in Workers :
        /\ pc[i] = "nav" /\ page[i] \in { sessions[sid] : sid \in DOMAIN sessions }
        /\ pc[j] = "lock"
        /\ closer.pc = "loop" /\ mu = -1

\* C33 (as stated): every party of the returned list has the role Petitioner,
\* Respondent or Other.
C33_Original ==
    parties.pc = "done" => \A k \in DOMAIN parties.out : parties.out[k].Type \in Roles

\* The part of C33 the code keeps: a row whose type text contains
\* "petitioner" or "respondent" in any case gets that role; any other row
\* keeps its trimmed type text as its role.
C33_TypeTextKept ==
    parties.pc = "done" =>
        \A k \in DOMAIN parties.out :
            \/ parties.out[k].Type \in Roles \ {<<"O", "t", "h", "e", "r">>}
            \/ \E r \in DOMAIN parties.rows :
                 /\ Len(parties.rows[r]) >= 2
                 /\ parties.out[k].Type = TrimSpace(parties.rows[r][1])
                 /\ ~Contains(ToLower(parties.out[k].Type), ToLower(PartyText.Petitioner))

\* C34: with K = 0 and a non-empty list no worker ever gets past its send on
\* the semaphore and the call never returns; otherwise, unless a panic ends
\* the process, the call returns, and it returns only when every worker has
\* run to its end and every slot is free again.
C34_ReturnsIffSlots ==
    /\ [](/\ (K = 0 /\ N > 0) =>
                /\ returned = NotReturned
                /\ sem = 0
                /\ \A i \in Workers : pc[i] \in {"idle", "spawned"}
          /\ returned /= NotReturned =>
                /\ sem = 0
                /\ \A i \in Workers : pc[i] = "done")
    /\ <>(crashed \/ (K = 0 /\ N > 0) \/ returned /= NotReturned)

\* C34 witness: a call with more queries than slots has returned.
C34_Witness ==
    /\ K >= 1
    /\ N > K
    /\ returned /= NotReturned
    /\ sem = 0

\* C35: a result slot changes only in the step in which the worker of that
\* index ends, it was unwritten before, and the caller has not returned; the
\* slot of a finished worker holds that worker's query and outcome; when the
\* caller has the results every worker has ended and the results are the slots.
C35_SlotWrittenOnce ==
    /\ [](/\ \A j \in Workers :
               pc[j] = "done" =>
                   results[j] = CaseResult(queries[j], outcome[j].CaseInfo,
                                           outcome[j].RawHTML, outcome[j].Error)
          /\ returned /= NotReturned =>
               /\ \A j \in Workers : pc[j] = "done"
               /\ returned.results = results)
    /\ [][\A j \in Workers :
            results'[j] /= results[j] =>
                /\ pc[j] /= "done" /\ pc'[j] = "done"
                /\ results[j] = ZeroResult
                /\ \A k \in Workers \ {j} : results'[k] = results[k]
                /\ returned = NotReturned /\ returned' = NotReturned]_vars

\* C35 witness: a call with two queries has returned two different results,
\* a record in the first slot and an error in the second.
C35_Witness ==
    /\ N = 2
    /\ returned /= NotReturned
    /\ returned.results[1].Error /= returned.results[2].Error
    /\ returned.results[1].Error = "nil"

\* C36: an entry of the session map is never removed or changed; a page is
\* closed only in a step of Close; the step in which a query ends leaves the
\* map and the pages as they are; and until Close is called every page ever
\* created is open and there is exactly one for each session key.
C36_MapOnlyGrows ==
    /\ [](closer.calls = 0 /\ closer.pc = "idle" =>
              /\ closed = {}
              /\ numPages = Cardinality(DOMAIN sessions)
              /\ { sessions[sid] : sid \in DOMAIN sessions } = 1..numPages)
    /\ [][/\ \A sid \in DOMAIN sessions :
                sid \in DOMAIN sessions' /\ sessions'[sid] = sessions[sid]
          /\ closed' /= closed => closer.pc = "loop"
          /\ \A i \in Workers :
                (pc[i] /= "ret" /\ pc'[i] = "ret") => sessions' = sessions /\ closed' = closed]_vars

\* C36 witness: two searches of different seconds have ended, one with a
\* record and one with an error, and both their pages are open.
C36_Witness ==
    /\ N = 2
    /\ \A i \in Workers : pc[i] = "ret"
    /\ outcome[1].Error = "nil" /\ outcome[2].Error /= "nil"
    /\ page[1] /= page[2]
    /\ Cardinality(DOMAIN sessions) = 2
    /\ closed = {}

\* The fields of the record other than the case number.
OtherFields == {"CaseType", "FilingYear", "FilingDate", "NextHearing", "Status", "Judge",
                "CourtComplex"}

\* A value of field f that no tier writes.
Marked(f) ==
    IF f \in {"FilingDate", "NextHearing"} THEN [y |-> 9999, m |-> 12, d |-> 31] ELSE <<"#">>

\* What the tier named t makes of record info on page p, t reading text as
\* the text of the container.
TierResult(t, p, text, info) ==
    CASE t = "table" -> ApplyRows(info, p.table.rows)
      [] t = "divs" -> ApplyElements(info, p.elements, 1)
      [] t = "text" -> parseCaseDetailsFromText(text, info)

\* The tier named t, run on page p, writes nothing into field f of info.
LeavesAlone(t, p, text, info, f) ==
    TierResult(t, p, text, [info EXCEPT ![f] = Marked(f)])[f] = Marked(f)

\* Every tier run leaves alone each field, other than the case number, that
\* a tier before it has set and that it does not write itself.
TiersKeepFields ==
    [][extract'.tiers /= extract.tiers =>
          LET t == extract'.tiers[Len(extract'.tiers)]
              p == extract.page
          IN \E text \in {p.text, <<>>} :
               /\ extract'.info = TierResult(t, p, text, extract.info)
               /\ \A f \in OtherFields :
                    (extract.info[f] /= EmptyInfo[f] /\ LeavesAlone(t, p, text, extract.info, f))
                        => extract'.info[f] = extract.info[f]]_vars

\* C37 (as stated): every tier leaves alone the fields set before it that it
\* does not write, and
\* every field other than the case number is in the returned record as the
\* tiers left it.
C37_Original ==
    /\ TiersKeepFields
    /\ [][extract.pc = "parties" /\ extract'.pc = "done" =>
             \A f \in OtherFields : extract'.out[1][f] = extract.info[f]]_vars

\* C37 (amended): every tier leaves alone the fields set before it that it
\* does not write, and
\* every field other than the case number and the status is in the returned
\* record as the tiers left it; the status is as the tiers left it or is the
\* "Disposed" or "Pending" of the case history.
C37_TiersShareRecord ==
    /\ TiersKeepFields
    /\ [][extract.pc = "parties" /\ extract'.pc = "done" =>
             /\ \A f \in OtherFields \ {"Status"} : extract'.out[1][f] = extract.info[f]
             /\ extract'.out[1].CaseNumber = extract.info.CaseNumber
             /\ extract'.out[1].Status \in
                    {extract.info.Status, Value.Pending, TrimSpace(Value.Disposed)}]_vars

\* C37 witness: a record has been returned whose case number came from the
\* div/span tier and whose next hearing date and status came from the table
\* tier before it.
C37_Witness ==
    /\ extract.pc = "done"
    /\ extract.out /= <<>>
    /\ extract.tiers = <<"table", "divs">>
    /\ extract.page.table.rows[1] = <<Label.NextHearingDate, Value.NextHearing>>
    /\ extract.out[1].NextHearing = parseDate(Value.NextHearing)
    /\ extract.out[1].Status = Value.Pending
    /\ extract.out[1].CaseNumber = TrimSpace(ElementText.CaseNoValue)

\* ----------------------------------------------------------------------
\* C38
\* ----------------------------------------------------------------------

\* C38 (as stated): after any sequence of Set, Get, Delete and Clear calls
\* the cache stores at most maxSize items.
C38_Original == ItemCount(lru) <= MaxSize

\* C38 (what the code keeps): at most maxSize of the stored items are
\* unexpired; the expired ones the janitor has not yet deleted come on top.
C38_UnexpiredAtMostMaxSize == Cardinality(DOMAIN Items(lru)) <= MaxSize

\* ----------------------------------------------------------------------
\* C39
\* ----------------------------------------------------------------------

\* The cache key of the request the handler is working on.
RequestKey == GenerateCacheKey(api.req.type, api.req.number, api.req.year)

\* C39: a request whose key is found in the cache is answered 200 at once,
\* the scraper not having been called; the item map changes only in the
\* step after a scrape that returned no error, and then the entry written is
\* that of the scraped key, every other entry being left as it was or
\* evicted.  A request whose scrape failed leaves the item map as it was.
C39_CacheAroundScrape ==
    /\ [][(api.pc = "lookup" /\ Found(lru, RequestKey)) =>
            (api'.pc = "done" /\ api'.status = 200 /\ ~api'.usedScraper)]_vars
    /\ [][lru'.items /= lru.items =>
            /\ api.pc = "store"
            /\ api.usedScraper
            /\ api.err = "nil"
            /\ api'.req = api.req
            /\ RequestKey \in DOMAIN lru'.items
            /\ \A j \in DOMAIN lru'.items \ {RequestKey} :
                 j \in DOMAIN lru.items /\ lru'.items[j] = lru.items[j]]_vars
    /\ [](api.err /= "nil" => (api.pc = "done" /\ api.status = 500))

\* A scrape has failed and been answered 500 after an earlier request was
\* scraped and cached and another was answered from the cache; the key of
\* the failed request is not in the cache.
C39_Witness ==
    /\ api.pc = "done"
    /\ api.status = 500
    /\ api.usedScraper
    /\ lru.stats.Hits >= 1
    /\ DOMAIN lru.items /= {}
    /\ RequestKey \notin DOMAIN lru.items

====
